---- MODULE Spec2Model ----
(***************************************************************************)
(* The analysis-job queue of services/python-ai: the worker loop of        *)
(* app/jobs/worker.py (sweep, claim, sequential processing, done/failed    *)
(* writes), the analysis entry point of app/analysis/service.py and the    *)
(* retry-with-reprompt loop of app/llm/interface.py.                       *)
(*                                                                         *)
(* Every SQL statement the code commits on its own is one action; several  *)
(* worker processes interleave between statements.  Timestamps are kept    *)
(* relative to the database clock NOW(): run_after holds run_after - NOW() *)
(* and locked_at holds NOW() - locked_at.  A lease older than the timeout  *)
(* stays older and a past run_after stays past, so locked_at saturates     *)
(* above the timeout and the past run_after values keep their order only;  *)
(* the clock itself can then run forever in a finite model.                *)
(*                                                                         *)
(* The ingestion run of app/ingestion/run.py is modelled the same way:     *)
(* advisory lock, ingestion_runs row, one upstream call per ticker         *)
(* (finnhub_client.py), raw_news_items upsert and selection (raw_store.py),*)
(* the loop over the raw rows and the final update of the run's row.       *)
(* Several runs interleave between statements; a run may die at any point  *)
(* and, where a specification lets it, a statement may fail.               *)
(*                                                                         *)
(* The pure functions canonicalize_url / generate_news_id of               *)
(* app/ingestion/url_utils.py and _is_retryable_error of the worker are    *)
(* operators on the characters of their arguments (urlsplit, parse_qsl,    *)
(* urlencode and urlunsplit as the standard library computes them); a      *)
(* specification of its own applies them to families of inputs.            *)
(***************************************************************************)
EXTENDS Integers, Sequences, FiniteSets, TLC

\* ---------------------------------------------------------------- bounds
NumWorkers == 2
NumJobs == 2
MaxBatchSize == 2
MaxMaxAttempts == 2
\* LLM_MAX_RETRIES of the runs explored
MaxRetries == 1
MaxPublishes == 3
NumRuns == 2
ProcessLimit == 2

Workers == 1..NumWorkers
JobIds == 1..NumJobs

\* SQL NULL for the integer columns (ids and ages are >= 0) and for text
NULL == 0 - 1
NoText == "NULL"

Min(a, b) == IF a < b THEN a ELSE b
Max(a, b) == IF a > b THEN a ELSE b

VARIABLES
    analysis_jobs,      \* table analysis_jobs: job id -> row (status "none": no row)
    analysis_jobs_columns, \* the columns table analysis_jobs was created with
    llm_analyses,       \* table llm_analyses: news_event_id -> row, one per (event, provider, model)
    max_attempts,       \* WORKER_MAX_ATTEMPTS, the same for all workers of a run
    batch_size,         \* --batch-size
    visibility_timeout, \* WORKER_VISIBILITY_TIMEOUT_SECONDS, in clock ticks
    once,               \* --once
    client_ok,          \* load_llm_client() succeeds (the provider's API key is configured)
    provider_outcomes,  \* what the configured provider can answer in this run
    pc,                 \* where each worker process is in main()
    running,            \* the shutdown flag running["value"] of each worker
    batch,              \* the JobRow snapshots a worker claimed and has not finished
    last_attempts,      \* LLMClient.last_attempts of the analysis in progress
    result,             \* what analyze_news_event returned to _process_jobs
    exec_time,          \* ticks a worker has spent on the job it is executing
    claim_count,        \* history: claims of a job since it was last put back to pending
    reclaimed,          \* history: the sweep took a lease of this job away
    failure_writes,     \* history: _mark_failed writes received by a job
    deliveries,         \* history: claims of a job in total, counted up to one above the budget
    max_publishes,      \* how often the environment calls publish_job for one event
    publish_returns,    \* history: what the publish_job calls for an event returned
    raw_news_items,     \* table raw_news_items: dedup key -> row
    news_events,        \* table news_events: the event ids that have a row
    ingestion_runs,     \* table ingestion_runs: the row each ingestion process inserted
    advisory_lock,      \* session holding pg_advisory_lock(hashtext(LOCK_KEY)), 0 if free
    upstream,           \* what Finnhub holds for each ticker
    db_faults,          \* statements of an ingestion run can fail in the database
    replay_only,        \* --replay-only of each ingestion process
    ipc,                \* where each ingestion process is in ingestion main()
    exit_code,          \* status code each ingestion process ended with
    tx_aborted,         \* the connection of a run is in a failed transaction
    tickers_left,       \* tickers the fetch loop of a run still has to request
    raw_items,          \* items a run fetched and kept
    raw_rows,           \* rows select_raw_items returned and the loop has not reached
    selected,           \* history: the keys select_raw_items returned to a run
    job_type,           \* analysis_jobs.job_type of the job published for each event
    pure_fn,            \* the pure function a run of the function harness applies
    urls,               \* the two URL texts given to canonicalize_url
    canonical,          \* what the calls of canonicalize_url returned, in call order
    error_text,         \* the error message given to _is_retryable_error
    verdict,            \* what _is_retryable_error returned (empty: not called yet)
    answers,            \* what the server gives to each HTTP attempt of one adapter call
    request_result,     \* how _request_with_retries ended and the sleeps it made
    fetched_items,      \* the items fetch_company_news returned for one ticker
    daily_max,          \* INTAKE_DAILY_MAX_PER_TICKER
    latest_per_run,     \* INTAKE_LATEST_PER_RUN_PER_TICKER
    shaped              \* daily_limited and latest_items of that ticker

vars == <<analysis_jobs, analysis_jobs_columns, llm_analyses, max_attempts, batch_size,
          visibility_timeout, once,
          client_ok, provider_outcomes, pc, running, batch, last_attempts, result,
          exec_time, claim_count, reclaimed, failure_writes, deliveries, max_publishes,
          publish_returns, raw_news_items, news_events, ingestion_runs, advisory_lock,
          upstream, db_faults, replay_only, ipc, exit_code, tx_aborted, tickers_left,
          raw_items, raw_rows, selected, job_type, pure_fn, urls, canonical, error_text,
          verdict, answers, request_result, fetched_items, daily_max, latest_per_run,
          shaped>>

db == <<analysis_jobs, llm_analyses>>
\* inputs and results of the pure functions called on their own
url_fn == <<urls, canonical>>
retry_fn == <<error_text, verdict>>
fetch_fn == <<answers, request_result, fetched_items, daily_max, latest_per_run, shaped>>
pure == <<pure_fn, url_fn, retry_fn, fetch_fn>>
\* what a process is started with and never writes
config == <<analysis_jobs_columns, max_attempts, batch_size, visibility_timeout, once,
            client_ok, provider_outcomes, job_type, pure>>
locals == <<batch, last_attempts, result>>
history == <<claim_count, reclaimed, failure_writes, deliveries>>
\* the ingestion side: its tables, its environment and the state of its processes
intake_db == <<raw_news_items, news_events, ingestion_runs, advisory_lock>>
intake_env == <<upstream, db_faults, replay_only>>
intake_locals == <<ipc, exit_code, tx_aborted, tickers_left, raw_items, raw_rows, selected>>
intake == <<intake_db, intake_env, intake_locals>>
publishing == <<max_publishes, publish_returns>>

\* ------------------------------------------------------------ text helpers
\* str.lower() on the ASCII letters
UpperCase == "ABCDEFGHIJKLMNOPQRSTUVWXYZ"
LowerCase == "abcdefghijklmnopqrstuvwxyz"
LowerOf == [c \in {SubSeq(UpperCase, i, i) : i \in 1..Len(UpperCase)} |->
               LET i == CHOOSE k \in 1..Len(UpperCase) : SubSeq(UpperCase, k, k) = c
               IN SubSeq(LowerCase, i, i)]

LowerChar(c) == IF c \in DOMAIN LowerOf THEN LowerOf[c] ELSE c

\* (the text is lowered half by half, so that a long message does not nest
\* one evaluation per character)
RECURSIVE Lower(_)
Lower(s) ==
    IF Len(s) = 0 THEN s
    ELSE IF Len(s) = 1 THEN LowerChar(s)
    ELSE LET half == Len(s) \div 2
         IN Lower(SubSeq(s, 1, half)) \o Lower(SubSeq(s, half + 1, Len(s)))

\* Python's `t in s` on strings
Contains(s, t) ==
    \E i \in 1..(Len(s) - Len(t) + 1) : SubSeq(s, i, i + Len(t) - 1) = t

\* (mutant) the retryable tokens looked for first
RetryableLoweredRetryFirst(lowered) ==
    IF Contains(lowered, "timeout") \/ Contains(lowered, "json")
           \/ Contains(lowered, "validation") THEN TRUE
    ELSE FALSE

\* worker._is_retryable_error, from `lowered = error_message.lower()` on
RetryableLowered(lowered) ==
    IF Contains(lowered, "insufficient_quota") \/ Contains(lowered, "401")
           \/ Contains(lowered, "403") THEN FALSE
    ELSE IF Contains(lowered, "timeout") THEN TRUE
    ELSE IF Contains(lowered, "json") THEN TRUE
    ELSE IF Contains(lowered, "validation") THEN TRUE
    ELSE FALSE

RECURSIVE Pow2(_)
Pow2(n) == IF n <= 0 THEN 1 ELSE 2 * Pow2(n - 1)

\* error[:500]
LastErrorMax == 500
Truncate(error) == SubSeq(error, 1, Min(Len(error), LastErrorMax))

\* ---------------------------------------------------------- str operations
\* str(n) of a natural number
Digits == "0123456789"
RECURSIVE StrOf(_)
StrOf(n) ==
    IF n < 10 THEN SubSeq(Digits, n + 1, n + 1)
    ELSE StrOf(n \div 10) \o SubSeq(Digits, (n % 10) + 1, (n % 10) + 1)

\* Where the characters of a str matter one by one (a URL, a Retry-After
\* header) the str is kept as the sequence of its code points.  ord(c) of a
\* character a TLA+ string can hold: the printable ASCII characters but the
\* grave accent, in the runs 32..95 and 97..126, and four control characters
PrintableLow == " !\"#$%&'()*+,-./0123456789:;<=>?@ABCDEFGHIJKLMNOPQRSTUVWXYZ[\\]^_"
PrintableHigh == "abcdefghijklmnopqrstuvwxyz{|}~"
Ord(c) ==
    CASE c = "\t" -> 9
      [] c = "\n" -> 10
      [] c = "\f" -> 12
      [] c = "\r" -> 13
      [] \E i \in 1..Len(PrintableLow) : SubSeq(PrintableLow, i, i) = c ->
            31 + (CHOOSE i \in 1..Len(PrintableLow) : SubSeq(PrintableLow, i, i) = c)
      [] \E i \in 1..Len(PrintableHigh) : SubSeq(PrintableHigh, i, i) = c ->
            96 + (CHOOSE i \in 1..Len(PrintableHigh) : SubSeq(PrintableHigh, i, i) = c)

\* the code points of a text written as a TLA+ string, and back
CodePoints(text) == [i \in 1..Len(text) |-> Ord(SubSeq(text, i, i))]
RECURSIVE Text(_)
Text(s) ==
    IF Len(s) = 0 THEN ""
    ELSE (CASE s[1] = 9 -> "\t"
            [] s[1] = 10 -> "\n"
            [] s[1] = 12 -> "\f"
            [] s[1] = 13 -> "\r"
            [] s[1] \in 32..95 -> SubSeq(PrintableLow, s[1] - 31, s[1] - 31)
            [] s[1] \in 97..126 -> SubSeq(PrintableHigh, s[1] - 96, s[1] - 96))
         \o Text(SubSeq(s, 2, Len(s)))

\* the ASCII characters the code below names
Ascii == [tab |-> 9, lf |-> 10, cr |-> 13, space |-> 32, hash |-> 35, percent |-> 37,
          amp |-> 38, plus |-> 43, slash |-> 47, colon |-> 58, equals |-> 61,
          question |-> 63, at |-> 64, open |-> 91, close |-> 93]

\* s[:n] and s[n:] of Python (n counts characters, from 0)
Prefix(s, n) == SubSeq(s, 1, Min(n, Len(s)))
Suffix(s, n) == SubSeq(s, Min(n, Len(s)) + 1, Len(s))

\* s.find(c) + 1 and s.rfind(c) + 1 for a character c: 0 when absent
Find(s, c) ==
    IF \E i \in 1..Len(s) : s[i] = c
    THEN CHOOSE i \in 1..Len(s) : s[i] = c /\ \A k \in 1..(i - 1) : s[k] # c
    ELSE 0
RFind(s, c) ==
    IF \E i \in 1..Len(s) : s[i] = c
    THEN CHOOSE i \in 1..Len(s) : s[i] = c /\ \A k \in (i + 1)..Len(s) : s[k] # c
    ELSE 0

\* s.partition(c) and s.rpartition(c) as <<head, separator found, tail>>
Partition(s, c) ==
    LET i == Find(s, c) IN
      IF i = 0 THEN <<s, FALSE, <<>>>> ELSE <<Prefix(s, i - 1), TRUE, Suffix(s, i)>>
RPartition(s, c) ==
    LET i == RFind(s, c) IN
      IF i = 0 THEN <<<<>>, FALSE, s>> ELSE <<Prefix(s, i - 1), TRUE, Suffix(s, i)>>

\* s.split(c)
RECURSIVE Split(_, _)
Split(s, c) ==
    LET i == Find(s, c) IN
      IF i = 0 THEN <<s>> ELSE <<Prefix(s, i - 1)>> \o Split(Suffix(s, i), c)

\* s.rstrip(c) of one character and s.startswith(t)
RECURSIVE RStrip(_, _)
RStrip(s, c) ==
    IF Len(s) > 0 /\ s[Len(s)] = c THEN RStrip(Prefix(s, Len(s) - 1), c) ELSE s
StartsWith(s, t) == Len(s) >= Len(t) /\ Prefix(s, Len(t)) = t

\* s.replace(c, d) of one character by one character
Replaced(s, c, d) == [i \in 1..Len(s) |-> IF s[i] = c THEN d ELSE s[i]]

\* a < b on str: by code point, a proper prefix first
RECURSIVE StrLess(_, _)
StrLess(a, b) ==
    IF Len(b) = 0 THEN FALSE
    ELSE IF Len(a) = 0 THEN TRUE
    ELSE IF a[1] = b[1] THEN StrLess(Suffix(a, 1), Suffix(b, 1))
    ELSE a[1] < b[1]

\* ----------------------------------------------- str methods on Unicode
\* The tables are those of the Unicode database of the interpreter
\* (unicodedata.unidata_version 14.0.0).
InRanges(ranges, c) == \E k \in 1..Len(ranges) : ranges[k][1] <= c /\ c <= ranges[k][2]

\* the code points str.isspace() holds of
Whitespace ==
    <<9, 10, 11, 12, 13, 28, 29, 30, 31, 32, 133, 160, 5760, 8192, 8193, 8194, 8195, 8196,
      8197, 8198, 8199, 8200, 8201, 8202, 8232, 8233, 8239, 8287, 12288>>

\* str.strip()
Strip(s) ==
    LET kept == {i \in 1..Len(s) : \A k \in 1..Len(Whitespace) : Whitespace[k] # s[i]}
    IN IF kept = {} THEN <<>>
       ELSE SubSeq(s, CHOOSE i \in kept : \A j \in kept : i <= j,
                      CHOOSE i \in kept : \A j \in kept : i >= j)

\* the code points whose lower case is one other code point, as <<first,
\* last, step, distance>>: every step-th code point from first to last
\* lowers to the code point that distance further on
LowerRanges ==
    <<<<65, 90, 1, 32>>, <<192, 214, 1, 32>>, <<216, 222, 1, 32>>, <<256, 302, 2, 1>>,
      <<306, 310, 2, 1>>, <<313, 327, 2, 1>>, <<330, 374, 2, 1>>, <<376, 376, 1, -121>>,
      <<377, 381, 2, 1>>, <<385, 385, 1, 210>>, <<386, 388, 2, 1>>, <<390, 390, 1, 206>>,
      <<391, 391, 1, 1>>, <<393, 394, 1, 205>>, <<395, 395, 1, 1>>, <<398, 398, 1, 79>>,
      <<399, 399, 1, 202>>, <<400, 400, 1, 203>>, <<401, 401, 1, 1>>,
      <<403, 403, 1, 205>>, <<404, 404, 1, 207>>, <<406, 406, 1, 211>>,
      <<407, 407, 1, 209>>, <<408, 408, 1, 1>>, <<412, 412, 1, 211>>,
      <<413, 413, 1, 213>>, <<415, 415, 1, 214>>, <<416, 420, 2, 1>>,
      <<422, 422, 1, 218>>, <<423, 423, 1, 1>>, <<425, 425, 1, 218>>, <<428, 428, 1, 1>>,
      <<430, 430, 1, 218>>, <<431, 431, 1, 1>>, <<433, 434, 1, 217>>, <<435, 437, 2, 1>>,
      <<439, 439, 1, 219>>, <<440, 440, 1, 1>>, <<444, 444, 1, 1>>, <<452, 452, 1, 2>>,
      <<453, 453, 1, 1>>, <<455, 455, 1, 2>>, <<456, 456, 1, 1>>, <<458, 458, 1, 2>>,
      <<459, 475, 2, 1>>, <<478, 494, 2, 1>>, <<497, 497, 1, 2>>, <<498, 500, 2, 1>>,
      <<502, 502, 1, -97>>, <<503, 503, 1, -56>>, <<504, 542, 2, 1>>,
      <<544, 544, 1, -130>>, <<546, 562, 2, 1>>, <<570, 570, 1, 10795>>,
      <<571, 571, 1, 1>>, <<573, 573, 1, -163>>, <<574, 574, 1, 10792>>,
      <<577, 577, 1, 1>>, <<579, 579, 1, -195>>, <<580, 580, 1, 69>>, <<581, 581, 1, 71>>,
      <<582, 590, 2, 1>>, <<880, 882, 2, 1>>, <<886, 886, 1, 1>>, <<895, 895, 1, 116>>,
      <<902, 902, 1, 38>>, <<904, 906, 1, 37>>, <<908, 908, 1, 64>>, <<910, 911, 1, 63>>,
      <<913, 929, 1, 32>>, <<931, 939, 1, 32>>, <<975, 975, 1, 8>>, <<984, 1006, 2, 1>>,
      <<1012, 1012, 1, -60>>, <<1015, 1015, 1, 1>>, <<1017, 1017, 1, -7>>,
      <<1018, 1018, 1, 1>>, <<1021, 1023, 1, -130>>, <<1024, 1039, 1, 80>>,
      <<1040, 1071, 1, 32>>, <<1120, 1152, 2, 1>>, <<1162, 1214, 2, 1>>,
      <<1216, 1216, 1, 15>>, <<1217, 1229, 2, 1>>, <<1232, 1326, 2, 1>>,
      <<1329, 1366, 1, 48>>, <<4256, 4293, 1, 7264>>, <<4295, 4295, 1, 7264>>,
      <<4301, 4301, 1, 7264>>, <<5024, 5103, 1, 38864>>, <<5104, 5109, 1, 8>>,
      <<7312, 7354, 1, -3008>>, <<7357, 7359, 1, -3008>>, <<7680, 7828, 2, 1>>,
      <<7838, 7838, 1, -7615>>, <<7840, 7934, 2, 1>>, <<7944, 7951, 1, -8>>,
      <<7960, 7965, 1, -8>>, <<7976, 7983, 1, -8>>, <<7992, 7999, 1, -8>>,
      <<8008, 8013, 1, -8>>, <<8025, 8031, 2, -8>>, <<8040, 8047, 1, -8>>,
      <<8072, 8079, 1, -8>>, <<8088, 8095, 1, -8>>, <<8104, 8111, 1, -8>>,
      <<8120, 8121, 1, -8>>, <<8122, 8123, 1, -74>>, <<8124, 8124, 1, -9>>,
      <<8136, 8139, 1, -86>>, <<8140, 8140, 1, -9>>, <<8152, 8153, 1, -8>>,
      <<8154, 8155, 1, -100>>, <<8168, 8169, 1, -8>>, <<8170, 8171, 1, -112>>,
      <<8172, 8172, 1, -7>>, <<8184, 8185, 1, -128>>, <<8186, 8187, 1, -126>>,
      <<8188, 8188, 1, -9>>, <<8486, 8486, 1, -7517>>, <<8490, 8490, 1, -8383>>,
      <<8491, 8491, 1, -8262>>, <<8498, 8498, 1, 28>>, <<8544, 8559, 1, 16>>,
      <<8579, 8579, 1, 1>>, <<9398, 9423, 1, 26>>, <<11264, 11311, 1, 48>>,
      <<11360, 11360, 1, 1>>, <<11362, 11362, 1, -10743>>, <<11363, 11363, 1, -3814>>,
      <<11364, 11364, 1, -10727>>, <<11367, 11371, 2, 1>>, <<11373, 11373, 1, -10780>>,
      <<11374, 11374, 1, -10749>>, <<11375, 11375, 1, -10783>>,
      <<11376, 11376, 1, -10782>>, <<11378, 11378, 1, 1>>, <<11381, 11381, 1, 1>>,
      <<11390, 11391, 1, -10815>>, <<11392, 11490, 2, 1>>, <<11499, 11501, 2, 1>>,
      <<11506, 11506, 1, 1>>, <<42560, 42604, 2, 1>>, <<42624, 42650, 2, 1>>,
      <<42786, 42798, 2, 1>>, <<42802, 42862, 2, 1>>, <<42873, 42875, 2, 1>>,
      <<42877, 42877, 1, -35332>>, <<42878, 42886, 2, 1>>, <<42891, 42891, 1, 1>>,
      <<42893, 42893, 1, -42280>>, <<42896, 42898, 2, 1>>, <<42902, 42920, 2, 1>>,
      <<42922, 42922, 1, -42308>>, <<42923, 42923, 1, -42319>>,
      <<42924, 42924, 1, -42315>>, <<42925, 42925, 1, -42305>>,
      <<42926, 42926, 1, -42308>>, <<42928, 42928, 1, -42258>>,
      <<42929, 42929, 1, -42282>>, <<42930, 42930, 1, -42261>>, <<42931, 42931, 1, 928>>,
      <<42932, 42946, 2, 1>>, <<42948, 42948, 1, -48>>, <<42949, 42949, 1, -42307>>,
      <<42950, 42950, 1, -35384>>, <<42951, 42953, 2, 1>>, <<42960, 42960, 1, 1>>,
      <<42966, 42968, 2, 1>>, <<42997, 42997, 1, 1>>, <<65313, 65338, 1, 32>>,
      <<66560, 66599, 1, 40>>, <<66736, 66771, 1, 40>>, <<66928, 66938, 1, 39>>,
      <<66940, 66954, 1, 39>>, <<66956, 66962, 1, 39>>, <<66964, 66965, 1, 39>>,
      <<68736, 68786, 1, 64>>, <<71840, 71871, 1, 32>>, <<93760, 93791, 1, 32>>,
      <<125184, 125217, 1, 34>>>>

\* the case-ignorable code points and, of the others, the cased ones, as
\* <<first, last>> (the context str.lower() looks at around a capital sigma)
CaseIgnorable ==
    <<<<39, 39>>, <<46, 46>>, <<58, 58>>, <<94, 94>>, <<96, 96>>, <<168, 168>>,
      <<173, 173>>, <<175, 175>>, <<180, 180>>, <<183, 184>>, <<688, 879>>, <<884, 885>>,
      <<890, 890>>, <<900, 901>>, <<903, 903>>, <<1155, 1161>>, <<1369, 1369>>,
      <<1375, 1375>>, <<1425, 1469>>, <<1471, 1471>>, <<1473, 1474>>, <<1476, 1477>>,
      <<1479, 1479>>, <<1524, 1524>>, <<1536, 1541>>, <<1552, 1562>>, <<1564, 1564>>,
      <<1600, 1600>>, <<1611, 1631>>, <<1648, 1648>>, <<1750, 1757>>, <<1759, 1768>>,
      <<1770, 1773>>, <<1807, 1807>>, <<1809, 1809>>, <<1840, 1866>>, <<1958, 1968>>,
      <<2027, 2037>>, <<2042, 2042>>, <<2045, 2045>>, <<2070, 2093>>, <<2137, 2139>>,
      <<2184, 2184>>, <<2192, 2193>>, <<2200, 2207>>, <<2249, 2306>>, <<2362, 2362>>,
      <<2364, 2364>>, <<2369, 2376>>, <<2381, 2381>>, <<2385, 2391>>, <<2402, 2403>>,
      <<2417, 2417>>, <<2433, 2433>>, <<2492, 2492>>, <<2497, 2500>>, <<2509, 2509>>,
      <<2530, 2531>>, <<2558, 2558>>, <<2561, 2562>>, <<2620, 2620>>, <<2625, 2626>>,
      <<2631, 2632>>, <<2635, 2637>>, <<2641, 2641>>, <<2672, 2673>>, <<2677, 2677>>,
      <<2689, 2690>>, <<2748, 2748>>, <<2753, 2757>>, <<2759, 2760>>, <<2765, 2765>>,
      <<2786, 2787>>, <<2810, 2815>>, <<2817, 2817>>, <<2876, 2876>>, <<2879, 2879>>,
      <<2881, 2884>>, <<2893, 2893>>, <<2901, 2902>>, <<2914, 2915>>, <<2946, 2946>>,
      <<3008, 3008>>, <<3021, 3021>>, <<3072, 3072>>, <<3076, 3076>>, <<3132, 3132>>,
      <<3134, 3136>>, <<3142, 3144>>, <<3146, 3149>>, <<3157, 3158>>, <<3170, 3171>>,
      <<3201, 3201>>, <<3260, 3260>>, <<3263, 3263>>, <<3270, 3270>>, <<3276, 3277>>,
      <<3298, 3299>>, <<3328, 3329>>, <<3387, 3388>>, <<3393, 3396>>, <<3405, 3405>>,
      <<3426, 3427>>, <<3457, 3457>>, <<3530, 3530>>, <<3538, 3540>>, <<3542, 3542>>,
      <<3633, 3633>>, <<3636, 3642>>, <<3654, 3662>>, <<3761, 3761>>, <<3764, 3772>>,
      <<3782, 3782>>, <<3784, 3789>>, <<3864, 3865>>, <<3893, 3893>>, <<3895, 3895>>,
      <<3897, 3897>>, <<3953, 3966>>, <<3968, 3972>>, <<3974, 3975>>, <<3981, 3991>>,
      <<3993, 4028>>, <<4038, 4038>>, <<4141, 4144>>, <<4146, 4151>>, <<4153, 4154>>,
      <<4157, 4158>>, <<4184, 4185>>, <<4190, 4192>>, <<4209, 4212>>, <<4226, 4226>>,
      <<4229, 4230>>, <<4237, 4237>>, <<4253, 4253>>, <<4348, 4348>>, <<4957, 4959>>,
      <<5906, 5908>>, <<5938, 5939>>, <<5970, 5971>>, <<6002, 6003>>, <<6068, 6069>>,
      <<6071, 6077>>, <<6086, 6086>>, <<6089, 6099>>, <<6103, 6103>>, <<6109, 6109>>,
      <<6155, 6159>>, <<6211, 6211>>, <<6277, 6278>>, <<6313, 6313>>, <<6432, 6434>>,
      <<6439, 6440>>, <<6450, 6450>>, <<6457, 6459>>, <<6679, 6680>>, <<6683, 6683>>,
      <<6742, 6742>>, <<6744, 6750>>, <<6752, 6752>>, <<6754, 6754>>, <<6757, 6764>>,
      <<6771, 6780>>, <<6783, 6783>>, <<6823, 6823>>, <<6832, 6862>>, <<6912, 6915>>,
      <<6964, 6964>>, <<6966, 6970>>, <<6972, 6972>>, <<6978, 6978>>, <<7019, 7027>>,
      <<7040, 7041>>, <<7074, 7077>>, <<7080, 7081>>, <<7083, 7085>>, <<7142, 7142>>,
      <<7144, 7145>>, <<7149, 7149>>, <<7151, 7153>>, <<7212, 7219>>, <<7222, 7223>>,
      <<7288, 7293>>, <<7376, 7378>>, <<7380, 7392>>, <<7394, 7400>>, <<7405, 7405>>,
      <<7412, 7412>>, <<7416, 7417>>, <<7468, 7530>>, <<7544, 7544>>, <<7579, 7679>>,
      <<8125, 8125>>, <<8127, 8129>>, <<8141, 8143>>, <<8157, 8159>>, <<8173, 8175>>,
      <<8189, 8190>>, <<8203, 8207>>, <<8216, 8217>>, <<8228, 8228>>, <<8231, 8231>>,
      <<8234, 8238>>, <<8288, 8292>>, <<8294, 8303>>, <<8305, 8305>>, <<8319, 8319>>,
      <<8336, 8348>>, <<8400, 8432>>, <<11388, 11389>>, <<11503, 11505>>,
      <<11631, 11631>>, <<11647, 11647>>, <<11744, 11775>>, <<11823, 11823>>,
      <<12293, 12293>>, <<12330, 12333>>, <<12337, 12341>>, <<12347, 12347>>,
      <<12441, 12446>>, <<12540, 12542>>, <<40981, 40981>>, <<42232, 42237>>,
      <<42508, 42508>>, <<42607, 42610>>, <<42612, 42621>>, <<42623, 42623>>,
      <<42652, 42655>>, <<42736, 42737>>, <<42752, 42785>>, <<42864, 42864>>,
      <<42888, 42890>>, <<42994, 42996>>, <<43000, 43001>>, <<43010, 43010>>,
      <<43014, 43014>>, <<43019, 43019>>, <<43045, 43046>>, <<43052, 43052>>,
      <<43204, 43205>>, <<43232, 43249>>, <<43263, 43263>>, <<43302, 43309>>,
      <<43335, 43345>>, <<43392, 43394>>, <<43443, 43443>>, <<43446, 43449>>,
      <<43452, 43453>>, <<43471, 43471>>, <<43493, 43494>>, <<43561, 43566>>,
      <<43569, 43570>>, <<43573, 43574>>, <<43587, 43587>>, <<43596, 43596>>,
      <<43632, 43632>>, <<43644, 43644>>, <<43696, 43696>>, <<43698, 43700>>,
      <<43703, 43704>>, <<43710, 43711>>, <<43713, 43713>>, <<43741, 43741>>,
      <<43756, 43757>>, <<43763, 43764>>, <<43766, 43766>>, <<43867, 43871>>,
      <<43881, 43883>>, <<44005, 44005>>, <<44008, 44008>>, <<44013, 44013>>,
      <<64286, 64286>>, <<64434, 64450>>, <<65024, 65039>>, <<65043, 65043>>,
      <<65056, 65071>>, <<65106, 65106>>, <<65109, 65109>>, <<65279, 65279>>,
      <<65287, 65287>>, <<65294, 65294>>, <<65306, 65306>>, <<65342, 65342>>,
      <<65344, 65344>>, <<65392, 65392>>, <<65438, 65439>>, <<65507, 65507>>,
      <<65529, 65531>>, <<66045, 66045>>, <<66272, 66272>>, <<66422, 66426>>,
      <<67456, 67461>>, <<67463, 67504>>, <<67506, 67514>>, <<68097, 68099>>,
      <<68101, 68102>>, <<68108, 68111>>, <<68152, 68154>>, <<68159, 68159>>,
      <<68325, 68326>>, <<68900, 68903>>, <<69291, 69292>>, <<69446, 69456>>,
      <<69506, 69509>>, <<69633, 69633>>, <<69688, 69702>>, <<69744, 69744>>,
      <<69747, 69748>>, <<69759, 69761>>, <<69811, 69814>>, <<69817, 69818>>,
      <<69821, 69821>>, <<69826, 69826>>, <<69837, 69837>>, <<69888, 69890>>,
      <<69927, 69931>>, <<69933, 69940>>, <<70003, 70003>>, <<70016, 70017>>,
      <<70070, 70078>>, <<70089, 70092>>, <<70095, 70095>>, <<70191, 70193>>,
      <<70196, 70196>>, <<70198, 70199>>, <<70206, 70206>>, <<70367, 70367>>,
      <<70371, 70378>>, <<70400, 70401>>, <<70459, 70460>>, <<70464, 70464>>,
      <<70502, 70508>>, <<70512, 70516>>, <<70712, 70719>>, <<70722, 70724>>,
      <<70726, 70726>>, <<70750, 70750>>, <<70835, 70840>>, <<70842, 70842>>,
      <<70847, 70848>>, <<70850, 70851>>, <<71090, 71093>>, <<71100, 71101>>,
      <<71103, 71104>>, <<71132, 71133>>, <<71219, 71226>>, <<71229, 71229>>,
      <<71231, 71232>>, <<71339, 71339>>, <<71341, 71341>>, <<71344, 71349>>,
      <<71351, 71351>>, <<71453, 71455>>, <<71458, 71461>>, <<71463, 71467>>,
      <<71727, 71735>>, <<71737, 71738>>, <<71995, 71996>>, <<71998, 71998>>,
      <<72003, 72003>>, <<72148, 72151>>, <<72154, 72155>>, <<72160, 72160>>,
      <<72193, 72202>>, <<72243, 72248>>, <<72251, 72254>>, <<72263, 72263>>,
      <<72273, 72278>>, <<72281, 72283>>, <<72330, 72342>>, <<72344, 72345>>,
      <<72752, 72758>>, <<72760, 72765>>, <<72767, 72767>>, <<72850, 72871>>,
      <<72874, 72880>>, <<72882, 72883>>, <<72885, 72886>>, <<73009, 73014>>,
      <<73018, 73018>>, <<73020, 73021>>, <<73023, 73029>>, <<73031, 73031>>,
      <<73104, 73105>>, <<73109, 73109>>, <<73111, 73111>>, <<73459, 73460>>,
      <<78896, 78904>>, <<92912, 92916>>, <<92976, 92982>>, <<92992, 92995>>,
      <<94031, 94031>>, <<94095, 94111>>, <<94176, 94177>>, <<94179, 94180>>,
      <<110576, 110579>>, <<110581, 110587>>, <<110589, 110590>>, <<113821, 113822>>,
      <<113824, 113827>>, <<118528, 118573>>, <<118576, 118598>>, <<119143, 119145>>,
      <<119155, 119170>>, <<119173, 119179>>, <<119210, 119213>>, <<119362, 119364>>,
      <<121344, 121398>>, <<121403, 121452>>, <<121461, 121461>>, <<121476, 121476>>,
      <<121499, 121503>>, <<121505, 121519>>, <<122880, 122886>>, <<122888, 122904>>,
      <<122907, 122913>>, <<122915, 122916>>, <<122918, 122922>>, <<123184, 123197>>,
      <<123566, 123566>>, <<123628, 123631>>, <<125136, 125142>>, <<125252, 125259>>,
      <<127995, 127999>>, <<917505, 917505>>, <<917536, 917631>>, <<917760, 917999>>>>

Cased ==
    <<<<65, 90>>, <<97, 122>>, <<170, 170>>, <<181, 181>>, <<186, 186>>, <<192, 214>>,
      <<216, 246>>, <<248, 442>>, <<444, 447>>, <<452, 659>>, <<661, 687>>, <<880, 883>>,
      <<886, 887>>, <<891, 893>>, <<895, 895>>, <<902, 902>>, <<904, 906>>, <<908, 908>>,
      <<910, 929>>, <<931, 1013>>, <<1015, 1153>>, <<1162, 1327>>, <<1329, 1366>>,
      <<1376, 1416>>, <<4256, 4293>>, <<4295, 4295>>, <<4301, 4301>>, <<4304, 4346>>,
      <<4349, 4351>>, <<5024, 5109>>, <<5112, 5117>>, <<7296, 7304>>, <<7312, 7354>>,
      <<7357, 7359>>, <<7424, 7467>>, <<7531, 7543>>, <<7545, 7578>>, <<7680, 7957>>,
      <<7960, 7965>>, <<7968, 8005>>, <<8008, 8013>>, <<8016, 8023>>, <<8025, 8025>>,
      <<8027, 8027>>, <<8029, 8029>>, <<8031, 8061>>, <<8064, 8116>>, <<8118, 8124>>,
      <<8126, 8126>>, <<8130, 8132>>, <<8134, 8140>>, <<8144, 8147>>, <<8150, 8155>>,
      <<8160, 8172>>, <<8178, 8180>>, <<8182, 8188>>, <<8450, 8450>>, <<8455, 8455>>,
      <<8458, 8467>>, <<8469, 8469>>, <<8473, 8477>>, <<8484, 8484>>, <<8486, 8486>>,
      <<8488, 8488>>, <<8490, 8493>>, <<8495, 8500>>, <<8505, 8505>>, <<8508, 8511>>,
      <<8517, 8521>>, <<8526, 8526>>, <<8544, 8575>>, <<8579, 8580>>, <<9398, 9449>>,
      <<11264, 11387>>, <<11390, 11492>>, <<11499, 11502>>, <<11506, 11507>>,
      <<11520, 11557>>, <<11559, 11559>>, <<11565, 11565>>, <<42560, 42605>>,
      <<42624, 42651>>, <<42786, 42863>>, <<42865, 42887>>, <<42891, 42894>>,
      <<42896, 42954>>, <<42960, 42961>>, <<42963, 42963>>, <<42965, 42969>>,
      <<42997, 42998>>, <<43002, 43002>>, <<43824, 43866>>, <<43872, 43880>>,
      <<43888, 43967>>, <<64256, 64262>>, <<64275, 64279>>, <<65313, 65338>>,
      <<65345, 65370>>, <<66560, 66639>>, <<66736, 66771>>, <<66776, 66811>>,
      <<66928, 66938>>, <<66940, 66954>>, <<66956, 66962>>, <<66964, 66965>>,
      <<66967, 66977>>, <<66979, 66993>>, <<66995, 67001>>, <<67003, 67004>>,
      <<68736, 68786>>, <<68800, 68850>>, <<71840, 71903>>, <<93760, 93823>>,
      <<119808, 119892>>, <<119894, 119964>>, <<119966, 119967>>, <<119970, 119970>>,
      <<119973, 119974>>, <<119977, 119980>>, <<119982, 119993>>, <<119995, 119995>>,
      <<119997, 120003>>, <<120005, 120069>>, <<120071, 120074>>, <<120077, 120084>>,
      <<120086, 120092>>, <<120094, 120121>>, <<120123, 120126>>, <<120128, 120132>>,
      <<120134, 120134>>, <<120138, 120144>>, <<120146, 120485>>, <<120488, 120512>>,
      <<120514, 120538>>, <<120540, 120570>>, <<120572, 120596>>, <<120598, 120628>>,
      <<120630, 120654>>, <<120656, 120686>>, <<120688, 120712>>, <<120714, 120744>>,
      <<120746, 120770>>, <<120772, 120779>>, <<122624, 122633>>, <<122635, 122654>>,
      <<125184, 125251>>, <<127280, 127305>>, <<127312, 127337>>, <<127344, 127369>>>>

\* str.lower(): code point by code point; U+0130 lowers to two code points,
\* and a capital sigma (931) to the final sigma (962) when a cased character
\* comes before it and none after it, case-ignorable characters skipped,
\* else to 963
StrLower(s) ==
    LET Hit(c, range) == /\ range[1] <= c
                         /\ c <= range[2]
                         /\ (c - range[1]) % range[3] = 0
        InTable(c, ranges) ==
            IF \E k \in 1..Len(ranges) : Hit(c, ranges[k])
            THEN <<c + ranges[CHOOSE k \in 1..Len(ranges) : Hit(c, ranges[k])][4]>>
            ELSE <<c>>
        Mapped(c) ==
            IF c < 128 THEN IF 65 <= c /\ c <= 90 THEN <<c + 32>> ELSE <<c>>
            ELSE IF c = 304 THEN <<105, 775>>
            ELSE InTable(c, LowerRanges)
        \* the positions of the characters that are not case-ignorable
        Significant(ignorable) == {j \in 1..Len(s) : ~InRanges(ignorable, s[j])}
        Between(i, significant, cased) ==
            LET before == {j \in significant : j < i}
                after == {j \in significant : j > i}
            IN /\ before # {}
               /\ InRanges(cased, s[CHOOSE j \in before : \A m \in before : j >= m])
               /\ \/ after = {}
                  \/ ~InRanges(cased, s[CHOOSE j \in after : \A m \in after : j <= m])
        FinalSigma(i) == Between(i, Significant(CaseIgnorable), Cased)
        RECURSIVE Lowered(_)
        Lowered(i) ==
            IF i > Len(s) THEN <<>>
            ELSE (IF s[i] = 931 THEN IF FinalSigma(i) THEN <<962>> ELSE <<963>>
                  ELSE Mapped(s[i])) \o Lowered(i + 1)
    IN Lowered(1)

\* the code points of the digit zero of every script: the nine code points
\* after each are its digits 1 to 9 (str.isdecimal(), the digits int() reads)
DecimalZeros ==
    <<48, 1632, 1776, 1984, 2406, 2534, 2662, 2790, 2918, 3046, 3174, 3302, 3430, 3558,
      3664, 3792, 3872, 4160, 4240, 6112, 6160, 6470, 6608, 6784, 6800, 6992, 7088, 7232,
      7248, 42528, 43216, 43264, 43472, 43504, 43600, 44016, 65296, 66720, 68912, 69734,
      69872, 69942, 70096, 70384, 70736, 70864, 71248, 71360, 71472, 71904, 72016, 72784,
      73040, 73120, 92768, 92864, 93008, 120782, 120792, 120802, 120812, 120822, 123200,
      123632, 125264, 130032>>

\* the code points str.isdigit() holds of as well (superscripts, circled
\* digits and the like), as <<first, last>>
OtherDigits ==
    <<<<178, 179>>, <<185, 185>>, <<4969, 4977>>, <<6618, 6618>>, <<8304, 8304>>,
      <<8308, 8313>>, <<8320, 8329>>, <<9312, 9320>>, <<9332, 9340>>, <<9352, 9360>>,
      <<9450, 9450>>, <<9461, 9469>>, <<9471, 9471>>, <<10102, 10110>>, <<10112, 10120>>,
      <<10122, 10130>>, <<68160, 68163>>, <<69216, 69224>>, <<69714, 69722>>,
      <<127232, 127242>>>>

\* the value of a decimal digit, NULL for any other character
DecimalValue(c) ==
    LET Value(zeros) ==
            IF \E k \in 1..Len(zeros) : zeros[k] <= c /\ c <= zeros[k] + 9
            THEN c - zeros[CHOOSE k \in 1..Len(zeros) : zeros[k] <= c /\ c <= zeros[k] + 9]
            ELSE NULL
    IN Value(DecimalZeros)

\* str.isdigit()
IsDigit(s) ==
    Len(s) > 0 /\ \A i \in 1..Len(s) : DecimalValue(s[i]) # NULL \/ InRanges(OtherDigits, s[i])

\* int(s) of a str isdigit() holds of: the number its decimal digits write,
\* or IntError for the ValueError a digit that is no decimal digit raises
IntError == NULL
RECURSIVE IntOf(_)
IntOf(s) ==
    IF Len(s) = 0 THEN 0
    ELSE IF \E i \in 1..Len(s) : DecimalValue(s[i]) = NULL THEN IntError
    ELSE 10 * IntOf(Prefix(s, Len(s) - 1)) + DecimalValue(s[Len(s)])

\* ------------------------------------------------ urllib.parse, as used
\* what a call that raises ValueError gives: no str, since no code point is
\* negative
ValueError == <<NULL>>

\* the code points whose NFKC normalization holds one of / ? # @ :
NfkcDelimiters ==
    <<8263, 8264, 8265, 8448, 8449, 8453, 8454, 10868, 65043, 65046, 65109, 65110, 65119,
      65131, 65283, 65295, 65306, 65311, 65312>>

\* IPv4Address(s) accepts s: four octets of one to three ASCII digits, none
\* above 255, none with a leading zero
IsIPv4Address(s) ==
    LET octets == Split(s, 46)
        Octet(o) == /\ Len(o) \in 1..3
                    /\ \A k \in 1..Len(o) : 48 <= o[k] /\ o[k] <= 57
                    /\ (o = <<48>> \/ o[1] # 48)
                    /\ IntOf(o) <= 255
    IN /\ Find(s, Ascii.slash) = 0
       /\ Len(s) > 0
       /\ Len(octets) = 4
       /\ \A k \in 1..4 : Octet(octets[k])

\* IPv6Address(s) accepts s: a zone after "%" that is not empty and holds no
\* "%", three to nine parts between colons, a last part with a "." an IPv4
\* address (it counts as two parts), at most one "::", and every other part
\* one to four hexadecimal digits
IsIPv6Address(s) ==
    LET Hextet(h) == /\ Len(h) \in 1..4
                     /\ \A k \in 1..Len(h) : \/ 48 <= h[k] /\ h[k] <= 57
                                             \/ 65 <= h[k] /\ h[k] <= 70
                                             \/ 97 <= h[k] /\ h[k] <= 102
        \* the parts around the "::" at skip_index
        Skipping(parts, n, skip_index) ==
            LET hi == IF Len(parts[1]) = 0 THEN skip_index - 2 ELSE skip_index - 1
                lo == IF Len(parts[n]) = 0 THEN n - skip_index - 1 ELSE n - skip_index
            IN /\ Len(parts[1]) = 0 => hi = 0
               /\ Len(parts[n]) = 0 => lo = 0
               /\ 8 - (hi + lo) >= 1
               /\ \A i \in 1..n : (i <= hi \/ i > n - lo) => Hextet(parts[i])
        Hextets(parts, n, empties) ==
            /\ n <= 9
            /\ Cardinality(empties) <= 1
            /\ IF empties # {} THEN Skipping(parts, n, CHOOSE i \in empties : TRUE)
               ELSE n = 8 /\ \A i \in 1..n : Hextet(parts[i])
        Parts(parts) ==
            Hextets(parts, Len(parts), {i \in 2..(Len(parts) - 1) : Len(parts[i]) = 0})
        \* the two parts written for a valid IPv4 suffix are hextets
        Colons(split, last) ==
            /\ Len(split) >= 3
            /\ IF Find(last, 46) > 0
               THEN /\ IsIPv4Address(last)
                    /\ Parts(Prefix(split, Len(split) - 1) \o <<<<48>>, <<48>>>>)
               ELSE Parts(split)
        IpStr(split) == Colons(split, split[Len(split)])
        Scoped(by_percent) ==
            /\ by_percent[2] =>
                  Len(by_percent[3]) > 0 /\ Find(by_percent[3], Ascii.percent) = 0
            /\ Len(by_percent[1]) > 0
            /\ IpStr(Split(by_percent[1], Ascii.colon))
    IN Find(s, Ascii.slash) = 0 /\ Scoped(Partition(s, Ascii.percent))

\* _check_bracketed_host(hostname) returns: an IPvFuture address, "v", hex
\* digits, "." and at least one more character, or an IPv6 address (an IPv4
\* address raises as every other text does)
CheckBracketedHost(hostname) ==
    LET IsHex(c) == \/ 48 <= c /\ c <= 57
                    \/ 65 <= c /\ c <= 70
                    \/ 97 <= c /\ c <= 102
        Future(others) ==
            /\ others # {}
            /\ LET dot == CHOOSE k \in others : \A m \in others : k <= m
               IN dot > 2 /\ hostname[dot] = 46 /\ dot < Len(hostname)
    IN IF Len(hostname) > 0 /\ hostname[1] = 118
       THEN Future({k \in 2..Len(hostname) : ~IsHex(hostname[k])})
       ELSE IsIPv6Address(hostname)

\* urlsplit(url): scheme, netloc, path, query and fragment, with the leading
\* C0 control characters and spaces stripped and tab, carriage return and
\* line feed removed first; invalid stands for the ValueError raised for a
\* netloc with one square bracket only, by _check_bracketed_host for what
\* stands between the brackets, and by _checknetloc for a netloc that NFKC
\* normalization gives a delimiter
UrlSplit(url) ==
    LET IsAlpha(c) == (65 <= c /\ c <= 90) \/ (97 <= c /\ c <= 122)
        IsSchemeChar(c) == IsAlpha(c) \/ (48 <= c /\ c <= 57) \/ c \in {43, 45, 46}
        LStripped(kept) ==
            IF kept = {} THEN <<>>
            ELSE SubSeq(url, CHOOSE k \in kept : \A m \in kept : k <= m, Len(url))
        \* the place of the colon that ends a scheme, 0 without scheme
        SchemeEnd(text, i) ==
            IF i > 1 /\ IsAlpha(text[1]) /\ \A k \in 1..(i - 1) : IsSchemeChar(text[k])
            THEN i ELSE 0
        \* the place after the netloc of a text that starts with "//"
        NetlocEnd(rest, ends) ==
            IF ends = {} THEN Len(rest) + 1 ELSE CHOOSE k \in ends : \A m \in ends : k <= m
        Brackets(netloc, opened, closed) ==
            \/ opened # closed
            \/ /\ opened
               /\ closed
               /\ ~CheckBracketedHost(
                      Partition(Partition(netloc, Ascii.open)[3], Ascii.close)[1])
        Invalid(netloc) ==
            \/ Brackets(netloc, Find(netloc, Ascii.open) > 0, Find(netloc, Ascii.close) > 0)
            \/ \E k \in 1..Len(netloc), m \in 1..Len(NfkcDelimiters) :
                  netloc[k] = NfkcDelimiters[m]
        Marked(scheme, netloc, by_mark, fragment) ==
            [scheme |-> scheme, netloc |-> netloc, path |-> by_mark[1],
             query |-> by_mark[3], fragment |-> fragment, invalid |-> Invalid(netloc)]
        Hashed(scheme, netloc, by_hash) ==
            Marked(scheme, netloc, Partition(by_hash[1], Ascii.question), by_hash[3])
        Located(scheme, rest, end) ==
            Hashed(scheme, SubSeq(rest, 3, end - 1),
                   Partition(Suffix(rest, end - 1), Ascii.hash))
        Rest(scheme, rest) ==
            IF Prefix(rest, 2) = <<Ascii.slash, Ascii.slash>>
            THEN Located(scheme, rest,
                         NetlocEnd(rest, {k \in 3..Len(rest) :
                                             rest[k] \in {Ascii.slash, Ascii.question,
                                                          Ascii.hash}}))
            ELSE Hashed(scheme, <<>>, Partition(rest, Ascii.hash))
        Schemed(text, i) ==
            Rest(IF i > 0 THEN StrLower(Prefix(text, i - 1)) ELSE <<>>,
                 IF i > 0 THEN Suffix(text, i) ELSE text)
        Cleaned(text) == Schemed(text, SchemeEnd(text, Find(text, Ascii.colon)))
    IN Cleaned(SelectSeq(LStripped({k \in 1..Len(url) : url[k] > Ascii.space}),
                         LAMBDA c : c \notin {Ascii.tab, Ascii.cr, Ascii.lf}))

\* SplitResult._hostinfo: <<hostname, port>> as texts (empty for None)
HostInfo(netloc) ==
    LET Bracketed(by_close) == <<by_close[1], Partition(by_close[3], Ascii.colon)[3]>>
        Plain(by_colon) == <<by_colon[1], by_colon[3]>>
        Opened(hostinfo, by_open) ==
            IF by_open[2] THEN Bracketed(Partition(by_open[3], Ascii.close))
            ELSE Plain(Partition(hostinfo, Ascii.colon))
        Info(hostinfo) == Opened(hostinfo, Partition(hostinfo, Ascii.open))
    IN Info(RPartition(netloc, Ascii.at)[3])

\* SplitResult.hostname (empty for None): lower case up to a percent sign,
\* the zone of a scoped address as written
Hostname(netloc) ==
    LET Zoned(by_percent) ==
            StrLower(by_percent[1]) \o (IF by_percent[2] THEN <<Ascii.percent>> ELSE <<>>)
                \o by_percent[3]
    IN Zoned(Partition(HostInfo(netloc)[1], Ascii.percent))

\* SplitResult.port: the number, NULL for None, or PortError for the
\* ValueError of a port that is not ASCII digits or is above 65535
PortError == NULL - 1
Port(netloc) ==
    LET RECURSIVE Significant(_)
        Significant(digits) ==
            IF Len(digits) > 1 /\ digits[1] = 48 THEN Significant(Suffix(digits, 1))
            ELSE digits
        Number(digits) ==
            IF Len(digits) > 5 THEN PortError
            ELSE IF IntOf(digits) > 65535 THEN PortError
            ELSE IntOf(digits)
        Read(port) ==
            IF Len(port) = 0 THEN NULL
            ELSE IF \E i \in 1..Len(port) : port[i] < 48 \/ port[i] > 57 THEN PortError
            ELSE Number(Significant(port))
    IN Read(HostInfo(netloc)[2])

\* bytes.decode("utf-8", "replace") of the bytes unquote hands over, and the
\* characters around them: an element >= 0 is a character that stands as it
\* is, an element -b the byte b >= 128 of an escape.  A well-formed sequence
\* of bytes gives its code point; a byte that can start none, and a start
\* with the bytes that can follow it but not all it needs, give U+FFFD.
RECURSIVE Utf8Decode(_)
Utf8Decode(units) ==
    IF Len(units) = 0 THEN <<>>
    ELSE IF units[1] >= 0 THEN <<units[1]>> \o Utf8Decode(Suffix(units, 1))
    ELSE
      LET lead == 0 - units[1]
          length == CASE 194 <= lead /\ lead <= 223 -> 2
                      [] 224 <= lead /\ lead <= 239 -> 3
                      [] 240 <= lead /\ lead <= 244 -> 4
                      [] OTHER -> 1
          lowest == CASE lead = 224 -> 160 [] lead = 240 -> 144 [] OTHER -> 128
          highest == CASE lead = 237 -> 159 [] lead = 244 -> 143 [] OTHER -> 191
          Continues(k) ==
              /\ k <= Len(units)
              /\ units[k] < 0
              /\ IF k = 2 THEN lowest <= 0 - units[k] /\ 0 - units[k] <= highest
                 ELSE 128 <= 0 - units[k] /\ 0 - units[k] <= 191
          good == {n \in 1..length : \A k \in 2..n : Continues(k)}
          taken == CHOOSE n \in good : \A m \in good : n >= m
          Bits(k) == (0 - units[k]) % 64
          code == CASE length = 2 -> (lead % 32) * 64 + Bits(2)
                    [] length = 3 -> ((lead % 16) * 64 + Bits(2)) * 64 + Bits(3)
                    [] OTHER -> (((lead % 8) * 64 + Bits(2)) * 64 + Bits(3)) * 64 + Bits(4)
      IN (IF length > 1 /\ taken = length THEN <<code>> ELSE <<65533>>)
            \o Utf8Decode(Suffix(units, taken))

\* unquote(s): "%" and two hexadecimal digits become the byte of that value,
\* and the bytes are decoded as UTF-8
Unquote(s) ==
    LET HexValue(c) == CASE 48 <= c /\ c <= 57 -> c - 48
                         [] 65 <= c /\ c <= 70 -> c - 55
                         [] 97 <= c /\ c <= 102 -> c - 87
                         [] OTHER -> NULL
        RECURSIVE Units(_)
        Units(i) ==
            IF i > Len(s) THEN <<>>
            ELSE IF /\ s[i] = Ascii.percent
                    /\ i + 2 <= Len(s)
                    /\ HexValue(s[i + 1]) # NULL
                    /\ HexValue(s[i + 2]) # NULL
            THEN LET byte == 16 * HexValue(s[i + 1]) + HexValue(s[i + 2])
                 IN <<IF byte < 128 THEN byte ELSE 0 - byte>> \o Units(i + 3)
            ELSE <<s[i]>> \o Units(i + 1)
    IN Utf8Decode(Units(1))

\* str.encode("utf-8") of one character that is no surrogate, as its bytes
Utf8Encode(c) ==
    IF c < 128 THEN <<c>>
    ELSE IF c < 2048 THEN <<192 + (c \div 64), 128 + (c % 64)>>
    ELSE IF c < 65536 THEN <<224 + (c \div 4096), 128 + ((c \div 64) % 64), 128 + (c % 64)>>
    ELSE <<240 + (c \div 262144), 128 + ((c \div 4096) % 64), 128 + ((c \div 64) % 64),
           128 + (c % 64)>>

\* quote_plus(s) of a str without surrogates: letters, digits and _ . - ~
\* stand, a space becomes "+", every other byte of the UTF-8 encoding "%XX"
RECURSIVE QuotePlus(_)
QuotePlus(s) ==
    IF Len(s) = 0 THEN <<>>
    ELSE LET c == s[1]
             always_safe == \/ (48 <= c /\ c <= 57) \/ (65 <= c /\ c <= 90)
                            \/ (97 <= c /\ c <= 122) \/ c \in {95, 46, 45, 126}
             Hex(n) == IF n < 10 THEN 48 + n ELSE 55 + n
             bytes == Utf8Encode(c)
             RECURSIVE Quoted(_)
             Quoted(k) == IF k > Len(bytes) THEN <<>>
                          ELSE <<Ascii.percent, Hex(bytes[k] \div 16), Hex(bytes[k] % 16)>>
                                  \o Quoted(k + 1)
         IN (IF always_safe THEN <<c>>
             ELSE IF c = Ascii.space THEN <<Ascii.plus>>
             ELSE Quoted(1)) \o QuotePlus(Suffix(s, 1))

\* parse_qsl(query, keep_blank_values=True) on the fields query.split("&")
\* (none for the empty query)
RECURSIVE ParseFields(_)
ParseFields(fields) ==
    IF fields = <<>> THEN <<>>
    ELSE LET nv == Partition(Head(fields), Ascii.equals)
             Value(s) == Unquote(Replaced(s, Ascii.plus, Ascii.space))
         IN
           (IF Len(Head(fields)) = 0 THEN <<>> ELSE <<<<Value(nv[1]), Value(nv[3])>>>>)
           \o ParseFields(Tail(fields))

\* urlencode(pairs, doseq=True) on pairs of str
RECURSIVE UrlEncode(_)
UrlEncode(pairs) ==
    IF pairs = <<>> THEN <<>>
    ELSE QuotePlus(Head(pairs)[1]) \o <<Ascii.equals>> \o QuotePlus(Head(pairs)[2])
         \o (IF Len(pairs) > 1 THEN <<Ascii.amp>> ELSE <<>>) \o UrlEncode(Tail(pairs))

\* the schemes urlunsplit writes with "//" although the netloc is empty
uses_netloc ==
    {CodePoints(scheme) :
        scheme \in {"ftp", "http", "gopher", "nntp", "telnet", "imap", "wais", "file", "mms",
                    "https", "shttp", "snews", "prospero", "rtsp", "rtsps", "rtspu", "rsync",
                    "svn", "svn+ssh", "sftp", "nfs", "git", "git+ssh", "ws", "wss"}}

\* urlunsplit((scheme, netloc, path, query, ""))
UrlUnsplit(scheme, netloc, path, query) ==
    LET authority == \/ Len(netloc) > 0
                     \/ /\ Len(scheme) > 0
                        /\ scheme \in uses_netloc
                        /\ Prefix(path, 2) # <<Ascii.slash, Ascii.slash>>
        rooted == IF Len(path) > 0 /\ path[1] # Ascii.slash THEN <<Ascii.slash>> \o path
                  ELSE path
        url == IF authority THEN <<Ascii.slash, Ascii.slash>> \o netloc \o rooted ELSE path
        with_scheme == IF Len(scheme) > 0 THEN scheme \o <<Ascii.colon>> \o url ELSE url
    IN IF Len(query) > 0 THEN with_scheme \o <<Ascii.question>> \o query ELSE with_scheme

\* ---------------------------------------------------------------- url_utils
TRACKING_PARAMS ==
    {CodePoints(key) :
        key \in {"gclid", "fbclid", "mc_cid", "mc_eid", "ref", "ref_src", "cmpid"}}

\* the test of the filter loop on one parsed key
IsTracking(key) ==
    LET key_lower == StrLower(key)
    IN StartsWith(key_lower, <<117, 116, 109, 95>>) \/ key_lower \in TRACKING_PARAMS

RECURSIVE Filtered(_)
Filtered(pairs) ==
    IF pairs = <<>> THEN <<>>
    ELSE (IF IsTracking(Head(pairs)[1]) THEN <<>> ELSE <<Head(pairs)>>)
         \o Filtered(Tail(pairs))

\* filtered.sort(key=lambda pair: (pair[0], pair[1])), by stable insertion
RECURSIVE Insert(_, _)
Insert(p, sorted) ==
    IF sorted = <<>> THEN <<p>>
    ELSE IF StrLess(p[1], Head(sorted)[1])
               \/ (p[1] = Head(sorted)[1] /\ StrLess(p[2], Head(sorted)[2]))
         THEN <<p>> \o sorted
    ELSE <<Head(sorted)>> \o Insert(p, Tail(sorted))

RECURSIVE Sorted(_)
Sorted(pairs) ==
    IF pairs = <<>> THEN <<>>
    ELSE Insert(pairs[Len(pairs)], Sorted(SubSeq(pairs, 1, Len(pairs) - 1)))

\* canonicalize_url(url): the canonical str, or ValueError: for a url that is
\* empty once stripped, for the ValueError of urlsplit and of parts.port, and
\* for the UnicodeEncodeError (a ValueError) urlencode raises on a surrogate
\* in a field that is kept.  username and password are the properties of
\* SplitResult, empty for None: the code tests their truth only.
Canonicalize(url) ==
    LET IsSurrogate(c) == 55296 <= c /\ c <= 57343
        UserInfo(username, password) ==
            IF Len(password) > 0 THEN username \o <<Ascii.colon>> \o password ELSE username
        WithUser(username, password, hostname) ==
            IF Len(username) > 0
            THEN UserInfo(username, password) \o <<Ascii.at>> \o hostname
            ELSE hostname
        WithPort(with_user, port) ==
            IF port # NULL /\ port # 0
            THEN with_user \o <<Ascii.colon>> \o CodePoints(StrOf(port))
            ELSE with_user
        Netloc(by_at, by_colon, hostname, port) ==
            WithPort(WithUser(IF by_at[2] THEN by_colon[1] ELSE <<>>,
                              IF by_at[2] THEN by_colon[3] ELSE <<>>, hostname), port)
        UserOf(netloc, by_at, port) ==
            Netloc(by_at, Partition(by_at[1], Ascii.colon), StrLower(Hostname(netloc)), port)
        Path(stripped) == IF Len(stripped) = 0 THEN <<Ascii.slash>> ELSE stripped
        Rebuilt(parts, filtered, port) ==
            IF parts.invalid \/ port = PortError THEN ValueError
            ELSE IF \E k \in 1..Len(filtered), f \in 1..2 :
                       \E i \in 1..Len(filtered[k][f]) : IsSurrogate(filtered[k][f][i])
            THEN ValueError
            ELSE UrlUnsplit(StrLower(parts.scheme),
                            UserOf(parts.netloc, RPartition(parts.netloc, Ascii.at), port),
                            Path(RStrip(parts.path, Ascii.slash)),
                            UrlEncode(Sorted(filtered)))
        Parsed(parts) ==
            Rebuilt(parts,
                    Filtered(ParseFields(IF Len(parts.query) = 0 THEN <<>>
                                         ELSE Split(parts.query, Ascii.amp))),
                    Port(parts.netloc))
        Stripped(raw) == IF Len(raw) = 0 THEN ValueError ELSE Parsed(UrlSplit(raw))
    IN Stripped(Strip(url))

\* generate_news_id(source, url): the sha256 digest, kept as the str that is
\* hashed; ValueError also for the UnicodeEncodeError of raw.encode("utf-8")
\* on a surrogate
GenerateNewsId(source, url) ==
    LET Digest(raw) ==
            IF \E i \in 1..Len(raw) : 55296 <= raw[i] /\ raw[i] <= 57343 THEN ValueError
            ELSE raw
        Hashed(canonical_url) ==
            IF canonical_url = ValueError THEN ValueError
            ELSE Digest(source \o <<124>> \o canonical_url)
    IN Hashed(Canonicalize(url))

\* ------------------------------------------------------------ the provider
\* What one call of provider.generate() followed by parse_analysis_json() can
\* do, named by what the provider did:
\*   ok                 a verdict that parses and validates and names a ticker
\*   ok_no_tickers      such a verdict with "tickers": [] or without the key
\*                      (the field defaults to the empty list)
\*   json_decode        the text not-json (json.JSONDecodeError)
\*   json_extra         the text {"a": 1} trailing (json.JSONDecodeError)
\*   json_root          the text [] (ValueError of parse_analysis_json)
\*   validation         a verdict with "confidence": 2 (pydantic ValidationError)
\*   validation_403     a verdict with "confidence": 1.403 (ValidationError)
\*   validation_missing the text {} (ValidationError on three fields)
\*   timeout            generate() raises TimeoutError("timeout")
\*   timed_out          generate() raises the OpenAI SDK's timeout error, whose
\*                      text is "Request timed out."
\*   quota              generate() raises ProviderError("quota",
\*                      code="insufficient_quota")
\*   ok_bytes           the verdict of ok in a response whose model_dump() holds
\*                      a bytes value (the adapters pass the dict on as it is)
\*   json_decode_bytes  the text of json_decode in such a response
ProviderOutcomes ==
    {"ok", "ok_no_tickers", "json_decode", "json_extra", "json_root", "validation", "validation_403",
     "validation_missing", "timeout", "timed_out", "quota", "ok_bytes", "json_decode_bytes"}

\* the outcomes in which analyze_news returns an AnalysisResult, and the
\* tickers of that result (_validate_tickers strips and upper-cases them)
AnswerOutcomes == {"ok", "ok_no_tickers", "ok_bytes"}
ResultTickers(outcome) == IF outcome \in {"ok", "ok_bytes"} THEN <<"T1">> ELSE <<>>

\* LLMRunAttempt.response of an attempt with that outcome: None when
\* generate() raised, else the dict of the adapter's _response_to_dict, which
\* json.dumps can serialize unless it holds bytes
ResponseOf(outcome) ==
    CASE outcome \in {"timeout", "timed_out", "quota"} -> "none"
      [] outcome \in {"ok_bytes", "json_decode_bytes"} -> "bytes"
      [] OTHER -> "dict"

\* LLMRunAttempt.error of an attempt with that outcome: str(exc) for the parse
\* and validation errors (pydantic prints the number of errors and, for each,
\* the field, the message, the offending input and a link that carries the
\* installed version, here 2.13), f"provider_error:{exc.code}:{exc}" for a
\* ProviderError with a code and f"provider_error: {exc}" for any other
\* exception
AttemptError(outcome) ==
    CASE outcome \in AnswerOutcomes -> NoText
      [] outcome \in {"json_decode", "json_decode_bytes"} ->
            "Expecting value: line 1 column 1 (char 0)"
      [] outcome = "json_extra" -> "Extra data: line 1 column 10 (char 9)"
      [] outcome = "json_root" -> "JSON root must be an object"
      [] outcome = "validation" ->
            "1 validation error for AnalysisResult\n"
            \o "confidence\n"
            \o "  Value error, confidence must be between 0 and 1 [type=value_error, input_value=2, input_type=int]\n"
            \o "    For further information visit https://errors.pydantic.dev/2.13/v/value_error"
      [] outcome = "validation_403" ->
            "1 validation error for AnalysisResult\n"
            \o "confidence\n"
            \o "  Value error, confidence must be between 0 and 1 [type=value_error, input_value=1.403, input_type=float]\n"
            \o "    For further information visit https://errors.pydantic.dev/2.13/v/value_error"
      [] outcome = "validation_missing" ->
            "3 validation errors for AnalysisResult\n"
            \o "sentiment\n"
            \o "  Field required [type=missing, input_value={}, input_type=dict]\n"
            \o "    For further information visit https://errors.pydantic.dev/2.13/v/missing\n"
            \o "confidence\n"
            \o "  Field required [type=missing, input_value={}, input_type=dict]\n"
            \o "    For further information visit https://errors.pydantic.dev/2.13/v/missing\n"
            \o "reasoning_summary\n"
            \o "  Field required [type=missing, input_value={}, input_type=dict]\n"
            \o "    For further information visit https://errors.pydantic.dev/2.13/v/missing"
      [] outcome = "timeout" -> "provider_error: timeout"
      [] outcome = "timed_out" -> "provider_error: Request timed out."
      [] outcome = "quota" -> "provider_error:insufficient_quota:quota"

\* str(exc) of the ValueError the provider adapters raise without an API key
InitErrorText == "OPENAI_API_KEY is required"

\* f"{exc}: {last_error}" of the LLMAnalysisError handler; str(exc) is the
\* message the loop raises with
AnalysisFailedText == "LLM analysis failed"
ComposeError(last_error) == AnalysisFailedText \o ": " \o last_error

\* analyze_news_event when _fetch_news_event finds no row
EventNotFoundText == "news_event_not_found"

\* str(exc) of the TypeError json.dumps raises, inside cursor.execute, for a
\* Json(raw_output) whose response holds bytes
SerializeErrorText == "Object of type bytes is not JSON serializable"

\* the error messages analyze_news_event can return in this model; their
\* classification is computed once, by the scan every other text gets, and
\* kept as a table from message to verdict
KnownMessages ==
    {EventNotFoundText, InitErrorText, SerializeErrorText}
        \cup {ComposeError(AttemptError(o)) : o \in ProviderOutcomes \ AnswerOutcomes}
RetryableKnown ==
    LET RECURSIVE Scanned(_)
        Scanned(messages) ==
            IF messages = {} THEN <<>>
            ELSE LET m == CHOOSE x \in messages : TRUE
                 IN (m :> RetryableLowered(Lower(m))) @@ Scanned(messages \ {m})
    IN Scanned(KnownMessages)

\* worker._is_retryable_error
IsRetryableError(error_message) ==
    IF error_message = NoText \/ Len(error_message) = 0 THEN FALSE
    ELSE IF error_message \in DOMAIN RetryableKnown THEN RetryableKnown[error_message]
    ELSE RetryableLowered(Lower(error_message))

\* ------------------------------------------------------------------ rows
\* The columns of table analysis_jobs.  The table is created outside the files
\* modelled here; the columns are those the specification lists for a job
\* (job_uuid .. last_error, timestamps), with (news_event_id, job_type)
\* unique and the defaults status 'pending', attempts 0, run_after NOW().
AnalysisJobsColumns ==
    {"id", "job_uuid", "news_event_id", "job_type", "trace_id", "status", "attempts",
     "run_after", "locked_at", "locked_by", "last_error", "created_at", "updated_at"}

\* The statements of the code name two key columns: the worker and the
\* worker's tests news_event_id, publish_job and its test news_id.  The
\* tables a statement of the code can meet: the one above, one keyed the
\* way publish_job writes it (news_id, with (news_id, job_type) unique), and
\* one with both key columns, each nullable, and both unique keys.
PublisherColumns == (AnalysisJobsColumns \ {"news_event_id"}) \cup {"news_id"}
BothKeyColumns == AnalysisJobsColumns \cup {"news_id"}
AnalysisJobsTables == {AnalysisJobsColumns, PublisherColumns, BothKeyColumns}

NoJob == [status |-> "none", news_event_id |-> NULL, news_id |-> NULL, attempts |-> 0,
          run_after |-> 0, locked_at |-> NULL, locked_by |-> NULL, last_error |-> NoText]

\* ids come from a sequence: a new row takes the lowest id not in use
NextJobId(rows) == CHOOSE j \in JobIds : /\ rows[j].status = "none"
                                        /\ \A k \in JobIds : k < j => rows[k].status # "none"
TableFull(rows) == \A j \in JobIds : rows[j].status # "none"

\* llm_analyses.raw_output as JSON: its type, how many LLMRunAttempt records
\* it carries and the "error" key of the one it was built from
NoRawOutput == [json_type |-> "null", attempts |-> 0, error |-> NoText]

\* sentiment stands for the columns sentiment, confidence and summary, which
\* one statement writes together with entities; entities is the JSON text
\* of the column; tickers is the set of the ticker values of the
\* analysis_tickers rows of this analysis
NoAnalysis == [status |-> "none", raw_output |-> NoRawOutput, sentiment |-> NoText,
               entities |-> NoText, tickers |-> {}]

\* the dict analyze_news_event returns: its keys status, error_message and
\* tickers (the empty list where the dict has no such key); status "raised"
\* when it raised instead, with str(exc) as error_message
NoResult == [status |-> "none", error_message |-> NoText, tickers |-> <<>>]

\* psycopg2's Json(list of strings): json.dumps of the list, each string
\* between quotes with the quote, the backslash and the control characters
\* escaped
Json(list) ==
    LET Escaped(c) ==
            CASE c = "\"" -> "\\\""
              [] c = "\\" -> "\\\\"
              [] c = "\n" -> "\\n"
              [] c = "\r" -> "\\r"
              [] c = "\t" -> "\\t"
              [] c = "\f" -> "\\f"
              [] OTHER -> c
        RECURSIVE JsonString(_)
        JsonString(text) ==
            IF text = "" THEN ""
            ELSE Escaped(SubSeq(text, 1, 1)) \o JsonString(SubSeq(text, 2, Len(text)))
        RECURSIVE JsonItems(_)
        JsonItems(items) ==
            IF items = <<>> THEN ""
            ELSE "\"" \o JsonString(Head(items)) \o "\""
                    \o (IF Tail(items) = <<>> THEN "" ELSE ", " \o JsonItems(Tail(items)))
    IN "[" \o JsonItems(list) \o "]"

\* job.news_event_id, the column RETURNING j.news_event_id reads (no statement
\* of the code ever updates it): NULL on a row that was inserted without it
EventOf(j) == analysis_jobs[j].news_event_id

\* ------------------------------------------------------- ingestion: data
Runs == 1..NumRuns

\* the tickers table, in the order _fetch_ticker_symbols returns it
TickerList == <<"T1", "T2">>
Tickers == {TickerList[i] : i \in 1..Len(TickerList)}

\* URLs of the upstream items and what canonicalize_url makes of them (the
\* values of Canonicalize on these URLs, tabulated): scheme and host
\* lower-cased, trailing slash and utm_* parameters dropped
UrlTracked == "https://Example.com/a/?utm_source=x"
UrlPlain == "https://example.com/a"
CanonicalUrls ==
    [u \in {UrlTracked, UrlPlain, "https://example.com/b", "https://example.com/c",
            "https://example.com/d"} |-> IF u = UrlTracked THEN UrlPlain ELSE u]

\* canonicalize_url(url) raises ValueError, for a url written as a text
CanonicalizeRaises(url) ==
    url \notin DOMAIN CanonicalUrls /\ Canonicalize(CodePoints(url)) = ValueError

\* canonicalize_url(url) where it returns
CanonicalizeUrl(url) ==
    IF url \in DOMAIN CanonicalUrls THEN CanonicalUrls[url]
    ELSE Text(Canonicalize(CodePoints(url)))

\* "canonical_url or url" of insert_raw_items, canonical_url being None after
\* a ValueError (a canonical URL is never empty)
CanonicalOrUrl(url) ==
    LET Or(canonical_url) == IF canonical_url = ValueError THEN url ELSE Text(canonical_url)
    IN IF url \in DOMAIN CanonicalUrls THEN CanonicalUrls[url]
       ELSE Or(Canonicalize(CodePoints(url)))

\* Finnhub items: the keys normalize_finnhub requires (NoText / NULL: the key
\* is absent); one item has no url, one an empty headline and one the
\* datetime 0
ItemA == [url |-> UrlTracked, headline |-> "h", datetime |-> 1]
ItemB == [url |-> "https://example.com/b", headline |-> "h", datetime |-> 1]
ItemNoUrl == [url |-> NoText, headline |-> "h", datetime |-> 1]
ItemNoHeadline == [url |-> "https://example.com/c", headline |-> "", datetime |-> 1]
ItemNoDatetime == [url |-> "https://example.com/d", headline |-> "h", datetime |-> 0]
Items == {ItemA, ItemB, ItemNoUrl, ItemNoHeadline, ItemNoDatetime}
NoItem == [url |-> NoText, headline |-> NoText, datetime |-> NULL]

\* "not value" of Python on what item.get(key) gives: None for an absent
\* key, and the empty string and the number 0 are false as well
IsFalsyText(value) == value \in {NoText, ""}
IsFalsyNumber(value) == value \in {NULL, 0}

\* raw_store._dedup_key: sha256 of source|url when there is a url, else of
\* source|title|published_at; the hash is kept as the text it is taken of
DedupKey(item) ==
    IF ~IsFalsyText(item.url) THEN CanonicalOrUrl(item.url)
    ELSE (IF IsFalsyText(item.headline) THEN "" ELSE item.headline)
            \o "|" \o (IF IsFalsyNumber(item.datetime) THEN "" ELSE "t")
RawKeys == {DedupKey(i) : i \in Items}

\* normalize_finnhub: "if not url or not headline or not published_at", where
\* published_at is None for "item.get('datetime') or item.get('published_at')"
\* of a datetime that is absent or 0 and a datetime otherwise, and then
\* canonicalize_url(url), whose ValueError is not caught; "ok" stands for the
\* NewsEvent, the other values for the exception raised
NormalizationErrorText == "Missing required fields: url/headline/datetime"
NormalizeFinnhub(item) ==
    IF IsFalsyText(item.url) \/ IsFalsyText(item.headline) \/ IsFalsyNumber(item.datetime)
    THEN NormalizationErrorText
    ELSE IF CanonicalizeRaises(item.url) THEN "ValueError"
    ELSE "ok"

\* news_events.id of the event with this canonical url: news_id is a pure
\* function of (source, canonical_url) and ON CONFLICT (news_id) keeps one row
EventIdOf(item) == IF CanonicalizeUrl(item.url) = UrlPlain THEN 1 ELSE 2

NoRawRow == [status |-> "none", attempts |-> 0, payload |-> NoItem,
             last_error |-> NoText, fetched_at |-> 0]

\* -------------------------------------------------------------------- Init
\* an ingestion side that is never started
IntakeBoot ==
    /\ ingestion_runs = [r \in Runs |-> "none"]
    /\ advisory_lock = 0
    /\ ipc = [r \in Runs |-> "start"]
    /\ exit_code = [r \in Runs |-> NULL]
    /\ tx_aborted = [r \in Runs |-> FALSE]
    /\ tickers_left = [r \in Runs |-> <<>>]
    /\ raw_items = [r \in Runs |-> {}]
    /\ raw_rows = [r \in Runs |-> <<>>]
    /\ selected = [r \in Runs |-> {}]
    /\ publish_returns = [j \in JobIds |-> <<>>]

\* no adapter call and no rate shaping under observation
FetchIdle ==
    /\ answers = <<>>
    /\ request_result = [outcome |-> "none", sleeps |-> <<>>]
    /\ fetched_items = <<>>
    /\ daily_max = 0
    /\ latest_per_run = 0
    /\ shaped = [daily_limited |-> <<>>, latest_items |-> <<>>]

\* no pure function is called on its own
PureIdle ==
    /\ pure_fn = "none"
    /\ urls = <<>>
    /\ canonical = <<>>
    /\ error_text = NoText
    /\ verdict = <<>>
    /\ FetchIdle

\* every job is published with the default job_type of publish_job
OnlyLlmJobs == job_type = [j \in JobIds |-> "llm_analysis"]

\* raw_news_items has no row
NoRawRows == raw_news_items = [k \in RawKeys |-> NoRawRow]

\* the news_events rows the jobs refer to are stored (the job with id j is
\* inserted for the event with id j)
EventsStored == news_events = JobIds

\* the environment of the worker specifications: nothing upstream, every
\* event published once
QueueOnly ==
    /\ PureIdle
    /\ analysis_jobs_columns = AnalysisJobsColumns
    /\ NoRawRows
    /\ OnlyLlmJobs
    /\ EventsStored
    /\ upstream = [t \in Tickers |-> {}]
    /\ db_faults = FALSE
    /\ replay_only = [r \in Runs |-> FALSE]
    /\ max_publishes = 1

\* empty tables, every worker process at the top of its loop
Boot ==
    /\ IntakeBoot
    /\ analysis_jobs_columns \in AnalysisJobsTables
    /\ analysis_jobs = [j \in JobIds |-> NoJob]
    /\ llm_analyses = [e \in JobIds |-> NoAnalysis]
    /\ pc = [w \in Workers |-> "loop"]
    /\ running = [w \in Workers |-> TRUE]
    /\ batch = [w \in Workers |-> <<>>]
    /\ last_attempts = [w \in Workers |-> <<>>]
    /\ result = [w \in Workers |-> NoResult]
    /\ exec_time = [w \in Workers |-> 0]
    /\ claim_count = [j \in JobIds |-> 0]
    /\ reclaimed = [j \in JobIds |-> FALSE]
    /\ failure_writes = [j \in JobIds |-> 0]
    /\ deliveries = [j \in JobIds |-> 0]

\* long-running workers against a provider whose every answer is a verdict,
\* in a response that can be stored or in one that cannot: an analysis
\* succeeds or fails with a retryable error in one provider call, and fails
\* for good without a client (the retry loop is followed in SpecTimely,
\* SpecBackoff and SpecAnalysis)
Init ==
    /\ Boot
    /\ QueueOnly
    /\ max_attempts \in 1..MaxMaxAttempts
    /\ batch_size \in 1..MaxBatchSize
    /\ visibility_timeout = 1
    /\ once = FALSE
    /\ client_ok \in BOOLEAN
    /\ provider_outcomes = {"ok", "ok_bytes"}

\* ------------------------------------------------------------- publisher
\* publish_job: INSERT INTO analysis_jobs (news_id, trace_id, job_type, status)
\* VALUES (..., 'pending') ON CONFLICT (news_id, job_type) DO NOTHING; the
\* other columns take the table's defaults (attempts 0, run_after NOW(), no
\* lease, and no news_event_id: the statement does not name that column).
PublishedRow(news_id) == [NoJob EXCEPT !.status = "pending", !.news_id = news_id]

\* the row of the conflict target exists (job_type is the default of
\* publish_job in every call)
PublishConflict(rows, news_id) ==
    \E j \in JobIds : rows[j].status # "none" /\ rows[j].news_id = news_id

\* the table after the INSERT ... ON CONFLICT DO NOTHING
PublishInto(rows, news_id) ==
    IF PublishConflict(rows, news_id) THEN rows
    ELSE [rows EXCEPT ![NextJobId(rows)] = PublishedRow(news_id)]

\* publish_job(conn, news_id, trace_id), called by a caller that commits or,
\* when the call raises, rolls back.  The statement names the column news_id:
\* on a table without it the INSERT raises psycopg2's UndefinedColumn and no
\* row is written.  On a table that has the column and the unique key of the
\* conflict target, the first call inserts and returns True, a later one
\* returns False.
PublishJob(news_id) ==
    /\ Len(publish_returns[news_id]) < max_publishes
    /\ IF "news_id" \in analysis_jobs_columns
       THEN LET inserted == ~PublishConflict(analysis_jobs, news_id) IN
              /\ inserted => ~TableFull(analysis_jobs)
              /\ analysis_jobs' = PublishInto(analysis_jobs, news_id)
              /\ publish_returns' = [publish_returns EXCEPT ![news_id] =
                                        Append(@, IF inserted THEN "True" ELSE "False")]
       ELSE /\ publish_returns' = [publish_returns EXCEPT ![news_id] =
                                        Append(@, "UndefinedColumn")]
            /\ UNCHANGED analysis_jobs
    /\ UNCHANGED <<llm_analyses, config, intake, max_publishes, pc, running, locals,
                   exec_time, history>>

\* The insert the repository's worker tests enqueue a job with:
\* INSERT INTO analysis_jobs (news_event_id, trace_id, job_type) VALUES (...),
\* committed; status, attempts and run_after take the table's defaults.  The
\* statement raises and writes nothing on a table without the column, and for
\* an event that has a job of this type (the unique key).  Events get their
\* jobs in id order.
InsertedRow(news_event_id) ==
    [NoJob EXCEPT !.status = "pending", !.news_event_id = news_event_id]

InsertJob(news_event_id) ==
    /\ "news_event_id" \in analysis_jobs_columns
    /\ ~TableFull(analysis_jobs)
    /\ \A k \in JobIds :
         (\E j \in JobIds : analysis_jobs[j].status # "none"
                            /\ analysis_jobs[j].news_event_id = k) <=> k < news_event_id
    /\ analysis_jobs' = [analysis_jobs EXCEPT ![NextJobId(analysis_jobs)] =
                            InsertedRow(news_event_id)]
    /\ UNCHANGED <<llm_analyses, config, intake, publishing, pc, running, locals,
                   exec_time, history>>

\* ------------------------------------------------------------- the clock
\* One tick of NOW(): every stored instant moves one tick into the past.  A
\* run_after that is past stays past whatever the clock does, and the code
\* compares such values with NOW() and with one another only, so the table
\* keeps their order and no more: the k-th latest of the past run_after
\* values is stored as -k (equal instants stay equal).
AgeRow(r) ==
    IF r.status = "none" THEN r
    ELSE [r EXCEPT !.run_after = @ - 1,
                   !.locked_at = IF @ = NULL THEN NULL
                                 ELSE Min(@ + 1, visibility_timeout + 1)]

AgeTable(rows) ==
    LET aged == [j \in JobIds |-> AgeRow(rows[j])]
        Past(j) == aged[j].status # "none" /\ aged[j].run_after < 0
        past == {aged[j].run_after : j \in {i \in JobIds : Past(i)}}
        Rank(instant) == Cardinality({p \in past : p >= instant})
    IN [j \in JobIds |-> IF Past(j) THEN [aged[j] EXCEPT !.run_after = 0 - Rank(@)]
                          ELSE aged[j]]

\* the worker is inside _process_jobs, working on the head of its batch
ExecPcs == {"process", "fetch_event", "init_failed", "llm", "tickers", "mark"}

\* the worker is inside analyze_news_event
AnalysisPcs == {"fetch_event", "init_failed", "llm", "tickers"}

Tick ==
    /\ analysis_jobs' = AgeTable(analysis_jobs)
    /\ UNCHANGED <<llm_analyses, config, intake, publishing, pc, running, locals, exec_time, history>>

\* a tick in a run where no single job takes visibility_timeout or longer
TickTimely ==
    /\ \A w \in Workers : pc[w] \in ExecPcs => exec_time[w] + 1 < visibility_timeout
    /\ analysis_jobs' = AgeTable(analysis_jobs)
    /\ exec_time' = [w \in Workers |->
                        IF pc[w] \in ExecPcs THEN exec_time[w] + 1 ELSE exec_time[w]]
    /\ UNCHANGED <<llm_analyses, config, intake, publishing, pc, running, locals, history>>

\* (mutant) the comparison with the cutoff turned around
StuckRowWrongSide(r) ==
    /\ r.status = "running"
    /\ r.locked_at # NULL
    /\ r.locked_at < visibility_timeout

\* (mutant) the sweep without the cutoff: every lease counts as stuck
StuckRowNoCutoff(r) ==
    /\ r.status = "running"
    /\ r.locked_at # NULL

\* ------------------------------------------------------ _recover_stuck_jobs
\* WHERE status = 'running' AND locked_at IS NOT NULL
\*   AND locked_at < NOW() - visibility_timeout
StuckRow(r) ==
    /\ r.status = "running"
    /\ r.locked_at # NULL
    /\ r.locked_at > visibility_timeout

\* (mutant) the sweep that leaves the old holder's name on the row
RecoverRowKeepsLock(r) ==
    [r EXCEPT !.status = "pending", !.locked_at = NULL]

\* SET status = 'pending', locked_at = NULL, locked_by = NULL
RecoverRow(r) ==
    [r EXCEPT !.status = "pending", !.locked_at = NULL, !.locked_by = NULL]

\* while running["value"]: the flag is up, the body of the loop is entered.
\* The flag is read here and nowhere else; a signal that arrives after the
\* test finds the worker inside the body, which runs to its end.
LoopTest(w) ==
    /\ pc[w] = "loop"
    /\ running[w]
    /\ pc' = [pc EXCEPT ![w] = "recover"]
    /\ UNCHANGED <<db, config, intake, publishing, running, locals, exec_time, history>>

RecoverStuckJobs(w) ==
    /\ pc[w] = "recover"
    /\ analysis_jobs' = [j \in JobIds |->
                            IF StuckRow(analysis_jobs[j]) THEN RecoverRow(analysis_jobs[j])
                            ELSE analysis_jobs[j]]
    /\ claim_count' = [j \in JobIds |-> IF StuckRow(analysis_jobs[j]) THEN 0 ELSE claim_count[j]]
    /\ reclaimed' = [j \in JobIds |-> reclaimed[j] \/ StuckRow(analysis_jobs[j])]
    /\ pc' = [pc EXCEPT ![w] = "claim"]
    /\ UNCHANGED <<llm_analyses, config, intake, publishing, running, locals, exec_time,
                   failure_writes, deliveries>>

\* while running["value"]: the flag is down, main() returns 0
LoopExit(w) ==
    /\ pc[w] = "loop"
    /\ ~running[w]
    /\ pc' = [pc EXCEPT ![w] = "exited"]
    /\ UNCHANGED <<db, config, intake, publishing, running, locals, exec_time, history>>

\* -------------------------------------------------------------- _claim_jobs
\* (mutant) the claim that forgets to look at the status of a leased row
ClaimableRowAnyStatus(r) ==
    /\ r.status \in {"pending", "running"}
    /\ r.run_after <= 0
    /\ r.attempts < max_attempts

\* WHERE status = 'pending' AND run_after <= NOW() AND attempts < max_attempts
ClaimableRow(r) ==
    /\ r.status = "pending"
    /\ r.run_after <= 0
    /\ r.attempts < max_attempts

\* ORDER BY run_after ASC, created_at ASC (jobs are created in id order)
Before(j, k) ==
    \/ analysis_jobs[j].run_after < analysis_jobs[k].run_after
    \/ analysis_jobs[j].run_after = analysis_jobs[k].run_after /\ j < k

\* (mutant) the CTE without its LIMIT
ClaimedIdsNoLimit == {j \in JobIds : ClaimableRow(analysis_jobs[j])}

\* the rows of the CTE: the first batch_size claimable rows in that order
ClaimedIds ==
    {j \in JobIds :
        /\ ClaimableRow(analysis_jobs[j])
        /\ Cardinality({k \in JobIds : ClaimableRow(analysis_jobs[k]) /\ Before(k, j)})
              < batch_size}

\* (mutant) the claim that does not stamp the lease time
ClaimRowNoLockTime(r, w) ==
    [r EXCEPT !.status = "running", !.locked_by = w]

\* SET status = 'running', locked_at = NOW(), locked_by = worker_id
ClaimRow(r, w) ==
    [r EXCEPT !.status = "running", !.locked_at = 0, !.locked_by = w]

\* RETURNING j.id, ..., cte.attempts and cursor.fetchall(): the JobRow
\* snapshots of the updated rows.  The UPDATE ... FROM cte has no ORDER BY of
\* its own, so the rows come back in whatever order the plan produces them:
\* every order of the claimed rows is a possible batch.
JobRows(S) ==
    LET orders == {q \in [1..Cardinality(S) -> S] :
                      \A a, b \in 1..Cardinality(S) : a # b => q[a] # q[b]}
    IN {[i \in 1..Cardinality(S) |->
            [id |-> q[i], attempts |-> analysis_jobs[q[i]].attempts]] : q \in orders}

\* where main() goes when it has no job left to process
AfterBatch == IF once THEN "exited" ELSE "loop"

\* The statement selects and returns news_event_id: on a table without that
\* column it raises, nothing in main() catches the exception and the process
\* ends with the transaction rolled back.
ClaimJobs(w) ==
    /\ pc[w] = "claim"
    /\ IF "news_event_id" \in analysis_jobs_columns
       THEN /\ analysis_jobs' = [j \in JobIds |->
                                    IF j \in ClaimedIds THEN ClaimRow(analysis_jobs[j], w)
                                    ELSE analysis_jobs[j]]
            /\ claim_count' = [j \in JobIds |->
                                  IF j \in ClaimedIds THEN claim_count[j] + 1
                                  ELSE claim_count[j]]
            /\ deliveries' = [j \in JobIds |->
                                 IF j \in ClaimedIds
                                 THEN Min(deliveries[j] + 1, max_attempts + 1)
                                 ELSE deliveries[j]]
            /\ \E rows \in JobRows(ClaimedIds) : batch' = [batch EXCEPT ![w] = rows]
            /\ pc' = [pc EXCEPT ![w] = IF ClaimedIds = {} THEN AfterBatch ELSE "process"]
       ELSE /\ pc' = [pc EXCEPT ![w] = "crashed"]
            /\ UNCHANGED <<analysis_jobs, claim_count, deliveries, batch>>
    /\ exec_time' = [exec_time EXCEPT ![w] = 0]
    /\ UNCHANGED <<llm_analyses, config, intake, publishing, running, last_attempts, result, reclaimed,
                   failure_writes>>

\* ------------------------------------------------------ analyze_news_event
\* _upsert_analysis_pending: INSERT ... 'pending' ON CONFLICT (news_event_id,
\* provider, model) DO UPDATE SET status = 'pending', error_message = NULL
UpsertPendingRow(r) == [r EXCEPT !.status = "pending"]

\* _build_raw_output(None): the dict written when there is no attempt
NoAttemptsRawOutput == [json_type |-> "object", attempts |-> 0, error |-> "no_attempts"]

\* _build_raw_output(attempt), and client.last_raw_output on success: one dict
\* with the keys error, response, output_text, output_json of a single attempt
BuildRawOutput(attempt) == [json_type |-> "object", attempts |-> 1, error |-> attempt.error]

\* _update_analysis_success, which writes Json(result.tickers) to entities
\* and leaves analysis_tickers alone; _update_analysis_failed, which writes
\* status, error_message, raw_output and request only
UpdateSuccessRow(r, tickers, raw_output) ==
    [r EXCEPT !.status = "succeeded", !.raw_output = raw_output, !.sentiment = "positive",
              !.entities = Json(tickers)]
UpdateFailedRow(r, raw_output) == [r EXCEPT !.status = "failed", !.raw_output = raw_output]

\* _process_jobs takes the next job of the batch ("for job in jobs") and
\* calls analyze_news_event for an llm_analysis job
TakeJob(w) ==
    /\ pc[w] = "process"
    /\ job_type[Head(batch[w]).id] = "llm_analysis"
    /\ pc' = [pc EXCEPT ![w] = "fetch_event"]
    /\ UNCHANGED <<db, config, intake, publishing, running, locals, exec_time, history>>

\* analyze_news_event up to its first commit: it connects, reads the event
\* and returns "not_found" when the event has no row; otherwise it loads the
\* client and commits the pending row before any provider call
BeginAnalysis(w) ==
    /\ pc[w] = "fetch_event"
    /\ LET e == EventOf(Head(batch[w]).id) IN
         IF e \in news_events
         THEN /\ llm_analyses' = [llm_analyses EXCEPT ![e] = UpsertPendingRow(@)]
              /\ pc' = [pc EXCEPT ![w] = IF client_ok THEN "llm" ELSE "init_failed"]
              /\ UNCHANGED result
         ELSE /\ result' = [result EXCEPT ![w] =
                                [status |-> "not_found", error_message |-> EventNotFoundText,
                                 tickers |-> <<>>]]
              /\ pc' = [pc EXCEPT ![w] = "mark"]
              /\ UNCHANGED llm_analyses
    /\ UNCHANGED <<analysis_jobs, config, intake, publishing, running, batch, last_attempts,
                   exec_time, history>>

\* load_llm_client() raised: the row is marked failed (llm_init_error) and
\* str(exc) is returned as the error message
UpdateInitFailed(w) ==
    /\ pc[w] = "init_failed"
    /\ LET e == EventOf(Head(batch[w]).id) IN
         llm_analyses' = [llm_analyses EXCEPT ![e] = UpdateFailedRow(@, NoAttemptsRawOutput)]
    /\ result' = [result EXCEPT ![w] = [status |-> "failed", error_message |-> InitErrorText,
                                        tickers |-> <<>>]]
    /\ pc' = [pc EXCEPT ![w] = "mark"]
    /\ UNCHANGED <<analysis_jobs, config, intake, publishing, running, batch, last_attempts, exec_time, history>>

\* ------------------------------------------------- LLMClient.analyze_news
\* prompts[0] if attempt == 0 else retry_prompt
PromptFor(attempt) == IF attempt = 0 THEN "standard" ELSE "retry"

\* (mutant) the loop that retries after insufficient_quota like after any error
LoopEndsNoQuotaAbort(attempt, outcome) ==
    \/ outcome \in AnswerOutcomes
    \/ attempt >= MaxRetries

\* (mutant) a loop over range(max_retries + 2)
LoopEndsOneLate(attempt, outcome) ==
    \/ outcome \in AnswerOutcomes
    \/ outcome = "quota"
    \/ attempt > MaxRetries

\* does the for loop end after an attempt with this outcome?  (return result,
\* raise on insufficient_quota, or range(max_retries + 1) is used up)
LoopEnds(attempt, outcome) ==
    \/ outcome \in AnswerOutcomes
    \/ outcome = "quota"
    \/ attempt >= MaxRetries

\* what analyze_news_event returns once the loop has ended with these
\* attempts.  After an answer: succeeded with the tickers of the result, or,
\* when _update_analysis_success raises on a raw_output that cannot be
\* serialized, the failed dict of the "except Exception" clause with str(exc).
\* After an LLMAnalysisError: failed with the composed message, or, when
\* _update_analysis_failed raises on such a raw_output inside the handler,
\* the exception itself, which leaves analyze_news_event.
AnalysisOutcome(attempts, tickers) ==
    LET last == attempts[Len(attempts)]
        Failed(status, message) ==
            [status |-> status, error_message |-> message, tickers |-> <<>>]
    IN CASE last.error = NoText /\ last.response # "bytes" ->
                [status |-> "succeeded", error_message |-> NoText, tickers |-> tickers]
         [] last.error = NoText /\ last.response = "bytes" ->
                Failed("failed", SerializeErrorText)
         [] last.error # NoText /\ last.response # "bytes" ->
                Failed("failed", ComposeError(last.error))
         [] OTHER -> Failed("raised", SerializeErrorText)

\* One iteration of the loop: one provider call and one appended LLMRunAttempt.
\* When the loop ends with it, analyze_news_event writes and commits the
\* outcome to llm_analyses; the client object and its attempts are dropped.
\* After a failure it returns; after a success the ticker rows are still to
\* be replaced.  The row is written succeeded with the raw output of the
\* answer, failed with the raw output of the last attempt (LLMAnalysisError),
\* or failed with _build_raw_output(None) (the "except Exception" clause);
\* it stays pending when the handler's own write raises.
ProviderCall(w) ==
    /\ pc[w] = "llm"
    /\ \E outcome \in provider_outcomes :
         LET attempt == Len(last_attempts[w])
             attempts == Append(last_attempts[w],
                                [prompt |-> PromptFor(attempt), error |-> AttemptError(outcome),
                                 response |-> ResponseOf(outcome)])
             last == attempts[Len(attempts)]
             e == EventOf(Head(batch[w]).id)
             returned == AnalysisOutcome(attempts, ResultTickers(outcome))
         IN IF LoopEnds(attempt, outcome)
            THEN /\ llm_analyses' = [llm_analyses EXCEPT ![e] =
                        CASE returned.status = "succeeded" ->
                                UpdateSuccessRow(@, returned.tickers, BuildRawOutput(last))
                          [] returned.status = "raised" -> @
                          [] last.error = NoText -> UpdateFailedRow(@, NoAttemptsRawOutput)
                          [] OTHER -> UpdateFailedRow(@, BuildRawOutput(last))]
                 /\ result' = [result EXCEPT ![w] = returned]
                 /\ last_attempts' = [last_attempts EXCEPT ![w] = <<>>]
                 /\ pc' = [pc EXCEPT ![w] =
                              IF returned.status = "succeeded" THEN "tickers" ELSE "mark"]
            ELSE /\ last_attempts' = [last_attempts EXCEPT ![w] = attempts]
                 /\ UNCHANGED <<llm_analyses, result, pc>>
    /\ UNCHANGED <<analysis_jobs, config, intake, publishing, running, batch, exec_time, history>>

\* _replace_analysis_tickers(conn, analysis_id, result.tickers), in a
\* transaction of its own after the one of _update_analysis_success: the
\* rows of the analysis are deleted and one row per ticker of the result is
\* inserted ("if tickers": none for the empty list)
ReplaceAnalysisTickers(w) ==
    /\ pc[w] = "tickers"
    /\ LET e == EventOf(Head(batch[w]).id)
           tickers == result[w].tickers
       IN llm_analyses' = [llm_analyses EXCEPT ![e].tickers =
                              {tickers[i] : i \in 1..Len(tickers)}]
    /\ pc' = [pc EXCEPT ![w] = "mark"]
    /\ UNCHANGED <<analysis_jobs, config, intake, publishing, running, batch, last_attempts,
                   result, exec_time, history>>

\* ---------------------------------------------------- _mark_done / _mark_failed
\* UPDATE analysis_jobs SET status = 'done', last_error = NULL WHERE id = %s
MarkDoneRow(r) == [r EXCEPT !.status = "done", !.last_error = NoText]

\* (mutant) the budget test off by one: next_attempts <= max_attempts
MarkFailedRowOffByOne(r, job, error, retryable) ==
    LET next_attempts == job.attempts + 1 IN
      IF retryable /\ next_attempts <= max_attempts
      THEN [r EXCEPT !.status = "pending", !.attempts = @ + 1,
                     !.last_error = Truncate(error), !.run_after = Pow2(next_attempts),
                     !.locked_at = NULL, !.locked_by = NULL]
      ELSE [r EXCEPT !.status = "failed", !.attempts = @ + 1,
                     !.last_error = Truncate(error),
                     !.locked_at = NULL, !.locked_by = NULL]

\* _mark_failed(conn, job, error, retryable, max_attempts, ...): the branch is
\* chosen from the JobRow snapshot, the increment is applied to the row
MarkFailedRow(r, job, error, retryable) ==
    LET next_attempts == job.attempts + 1 IN
      IF retryable /\ next_attempts < max_attempts
      THEN [r EXCEPT !.status = "pending", !.attempts = @ + 1,
                     !.last_error = Truncate(error), !.run_after = Pow2(next_attempts),
                     !.locked_at = NULL, !.locked_by = NULL]
      ELSE [r EXCEPT !.status = "failed", !.attempts = @ + 1,
                     !.last_error = Truncate(error),
                     !.locked_at = NULL, !.locked_by = NULL]

\* the row _process_jobs leaves for the job it has just finished: done after
\* a succeeded result, else the failure write with the error_message of the
\* result, or, in the except clause, with str(exc) of what analyze_news_event
\* raised
CompletedRow(r, job, res) ==
    IF res.status = "succeeded" THEN MarkDoneRow(r)
    ELSE MarkFailedRow(r, job, res.error_message, IsRetryableError(res.error_message))

MarkJob(w) ==
    /\ pc[w] = "mark"
    /\ LET job == Head(batch[w])
           row == CompletedRow(analysis_jobs[job.id], job, result[w])
       IN /\ analysis_jobs' = [analysis_jobs EXCEPT ![job.id] = row]
          /\ claim_count' = [claim_count EXCEPT ![job.id] = IF row.status = "pending" THEN 0 ELSE @]
          /\ failure_writes' = [failure_writes EXCEPT ![job.id] =
                                   IF result[w].status = "succeeded" THEN @ ELSE @ + 1]
    /\ batch' = [batch EXCEPT ![w] = Tail(@)]
    /\ pc' = [pc EXCEPT ![w] = IF Len(batch[w]) > 1 THEN "process" ELSE AfterBatch]
    /\ result' = [result EXCEPT ![w] = NoResult]
    /\ exec_time' = [exec_time EXCEPT ![w] = 0]
    /\ UNCHANGED <<llm_analyses, config, intake, publishing, running, last_attempts, reclaimed,
                   deliveries>>

\* the row _process_jobs leaves for a job of any other job_type: the branch
\* after the llm_analysis block loads the event and marks the job done; the
\* except clause marks it failed when the load raises (error is str(exc) of
\* the RuntimeError _load_news_event raises)
OtherJobRow(r, job) ==
    LET Failed(error) == MarkFailedRow(r, job, error, IsRetryableError(error))
        news_event_id == EventOf(job.id)
    IN IF news_event_id \in news_events THEN MarkDoneRow(r)
       ELSE Failed("news_event_not_found: "
                     \o (IF news_event_id = NULL THEN "None" ELSE StrOf(news_event_id)))

ProcessOtherJob(w) ==
    /\ pc[w] = "process"
    /\ job_type[Head(batch[w]).id] # "llm_analysis"
    /\ LET job == Head(batch[w])
           row == OtherJobRow(analysis_jobs[job.id], job)
       IN /\ analysis_jobs' = [analysis_jobs EXCEPT ![job.id] = row]
          /\ claim_count' = [claim_count EXCEPT ![job.id] = IF row.status = "pending" THEN 0 ELSE @]
          /\ failure_writes' = [failure_writes EXCEPT ![job.id] =
                                   IF row.status = "done" THEN @ ELSE @ + 1]
    /\ batch' = [batch EXCEPT ![w] = Tail(@)]
    /\ pc' = [pc EXCEPT ![w] = IF Len(batch[w]) > 1 THEN "process" ELSE AfterBatch]
    /\ exec_time' = [exec_time EXCEPT ![w] = 0]
    /\ UNCHANGED <<llm_analyses, config, intake, publishing, running, last_attempts, result,
                   reclaimed, deliveries>>

\* ------------------------------------------------------ signals and crashes
LivePcs == {"loop", "recover", "claim"} \cup ExecPcs

\* _handle_shutdown: SIGINT or SIGTERM clears the flag
Shutdown(w) ==
    /\ pc[w] \in LivePcs
    /\ running[w]
    /\ running' = [running EXCEPT ![w] = FALSE]
    /\ UNCHANGED <<db, config, intake, publishing, pc, locals, exec_time, history>>

\* the process dies (kill -9, OOM, host loss): nothing more is written
Crash(w) ==
    /\ pc[w] \in LivePcs
    /\ pc' = [pc EXCEPT ![w] = "crashed"]
    /\ batch' = [batch EXCEPT ![w] = <<>>]
    /\ last_attempts' = [last_attempts EXCEPT ![w] = <<>>]
    /\ result' = [result EXCEPT ![w] = NoResult]
    /\ exec_time' = [exec_time EXCEPT ![w] = 0]
    /\ UNCHANGED <<db, config, intake, publishing, running, history>>

\* ======================================================================
\* The ingestion run: ingestion/run.py main()
\* ======================================================================
\* everything the queue side owns; an ingestion step leaves it alone
queue_side == <<llm_analyses, config, pc, running, locals, exec_time, history, publishing>>

\* positions of main() between the lock acquisition and conn.close()
IntakeLive == {"insert_run", "fetch", "insert_raw", "select", "rows", "finish", "fail",
               "return_0", "return_1", "raise"}

\* whether the statement a run is about to execute fails in the database
StatementFails == IF db_faults THEN BOOLEAN ELSE {FALSE}

\* finally: conn.close() and the return; the session's advisory lock goes
\* with the session
CloseConnection(r, at, code) ==
    /\ ipc' = [ipc EXCEPT ![r] = at]
    /\ exit_code' = [exit_code EXCEPT ![r] = code]
    /\ advisory_lock' = IF advisory_lock = r THEN 0 ELSE advisory_lock

\* (mutant) a lock function that grants the lock whoever holds it
TryAdvisoryLockAlways(r) ==
    /\ ipc[r] = "start"
    /\ \E fails \in StatementFails :
         IF fails
         THEN /\ tx_aborted' = [tx_aborted EXCEPT ![r] = TRUE]
              /\ ipc' = [ipc EXCEPT ![r] = "fail"]
              /\ UNCHANGED <<advisory_lock, exit_code>>
         ELSE /\ advisory_lock' = r
              /\ ipc' = [ipc EXCEPT ![r] = "insert_run"]
              /\ UNCHANGED <<exit_code, tx_aborted>>
    /\ UNCHANGED <<analysis_jobs, queue_side, raw_news_items, news_events, ingestion_runs,
                   intake_env, tickers_left, raw_items, raw_rows, selected>>

\* _try_advisory_lock and the "return 0" of the run that did not get the
\* lock; when the statement raises, the session holds no lock and the
\* exception goes to the handler of main
TryAdvisoryLock(r) ==
    /\ ipc[r] = "start"
    /\ \E fails \in StatementFails :
         IF fails
         THEN /\ tx_aborted' = [tx_aborted EXCEPT ![r] = TRUE]
              /\ ipc' = [ipc EXCEPT ![r] = "fail"]
              /\ UNCHANGED <<advisory_lock, exit_code>>
         ELSE /\ IF advisory_lock = 0
                 THEN /\ advisory_lock' = r
                      /\ ipc' = [ipc EXCEPT ![r] = "insert_run"]
                      /\ UNCHANGED exit_code
                 ELSE CloseConnection(r, "lock_not_acquired", 0)
              /\ UNCHANGED tx_aborted
    /\ UNCHANGED <<analysis_jobs, queue_side, raw_news_items, news_events, ingestion_runs,
                   intake_env, tickers_left, raw_items, raw_rows, selected>>

\* tickers of the run, then _insert_ingestion_run(... 'running' ...)
InsertIngestionRun(r) ==
    /\ ipc[r] = "insert_run"
    /\ LET tickers == IF replay_only[r] THEN <<>> ELSE TickerList IN
       \E fails \in StatementFails :
         IF fails
         THEN /\ tx_aborted' = [tx_aborted EXCEPT ![r] = TRUE]
              /\ ipc' = [ipc EXCEPT ![r] = "fail"]
              /\ UNCHANGED <<ingestion_runs, tickers_left>>
         ELSE /\ ingestion_runs' = [ingestion_runs EXCEPT ![r] = "running"]
              /\ tickers_left' = [tickers_left EXCEPT ![r] = tickers]
              /\ ipc' = [ipc EXCEPT ![r] = IF replay_only[r] THEN "select"
                                           ELSE IF tickers = <<>> THEN "finish"
                                           ELSE "fetch"]
              /\ UNCHANGED tx_aborted
    /\ UNCHANGED <<analysis_jobs, queue_side, raw_news_items, news_events, advisory_lock,
                   intake_env, exit_code, raw_items, raw_rows, selected>>

\* ---------------------------------------------------------- finnhub_client
MaxHttpAttempts == 3

\* what one client.get can give: 0 for an httpx.RequestError, else the status
HttpResponses == {0, 200, 404, 429, 503}

\* sleep_seconds after a 429 or 5xx answer: max(int(retry_after), 1) when the
\* header is there and str.isdigit() holds of it, else 2 ** (attempt - 1);
\* IntError when int() raises ValueError (isdigit() holds of digits, such as
\* a superscript two, that int() does not read).  NoHeader: headers.get gives
\* None.
NoHeader == <<NULL>>
RetrySleep(attempt, retry_after) ==
    IF retry_after # NoHeader /\ IsDigit(retry_after)
    THEN IF IntOf(retry_after) = IntError THEN IntError ELSE Max(IntOf(retry_after), 1)
    ELSE Pow2(attempt - 1)

\* _request_with_retries from this attempt on, given the answer to every
\* attempt (status 0: httpx.RequestError, no headers): how the call ends,
\* with the "response" (status < 400), with "finnhub_error" (retries used
\* up), with "http_status_error" (raise_for_status on a 4xx other than 429)
\* or with the "value_error" of int(), and the time.sleep calls it made
RECURSIVE RequestWithRetries(_, _)
RequestWithRetries(given, attempt) ==
    LET status_code == given[attempt].status
        Ends(outcome) == [outcome |-> outcome, sleeps |-> <<>>]
        Continues(sleep_seconds) ==
            LET later == RequestWithRetries(given, attempt + 1)
            IN [outcome |-> later.outcome, sleeps |-> <<sleep_seconds>> \o later.sleeps]
    IN
      IF status_code = 0
      THEN IF attempt = MaxHttpAttempts THEN Ends("finnhub_error")
           ELSE Continues(Pow2(attempt - 1))
      ELSE IF status_code < 400 THEN Ends("response")
      ELSE IF status_code = 429 \/ (500 <= status_code /\ status_code <= 599)
      THEN IF attempt = MaxHttpAttempts THEN Ends("finnhub_error")
           ELSE IF RetrySleep(attempt, given[attempt].retry_after) = IntError
           THEN Ends("value_error")
           ELSE Continues(RetrySleep(attempt, given[attempt].retry_after))
      ELSE Ends("http_status_error")

\* fetch_company_news: the items, or the exception that leaves it
FetchCompanyNews(given, payload_is_list) ==
    LET got == RequestWithRetries(given, 1).outcome IN
      IF got = "response" THEN IF payload_is_list THEN "items" ELSE "finnhub_error"
      ELSE got

\* ------------------------------------------------- run.py: rate shaping
\* An instant is a number of epoch seconds that fits 32 bits (1901 to 2038);
\* what may be absent (a key of an item, a parsed timestamp) is the empty
\* sequence for None and <<n>> for the number n.
None == <<>>

\* the instants at which America/New_York changes its UTC offset, in the
\* time zone database ZoneInfo reads: the offset is -18000 before the first,
\* -14400 from it on, and so on in turn
NewYorkTransitions ==
    <<-1633280400, -1615140000, -1601830800, -1583690400, -1570381200, -1551636000,
      -1536512400, -1523210400, -1504458000, -1491760800, -1473008400, -1459706400,
      -1441558800, -1428256800, -1410109200, -1396807200, -1378659600, -1365357600,
      -1347210000, -1333908000, -1315155600, -1301853600, -1283706000, -1270404000,
      -1252256400, -1238954400, -1220806800, -1207504800, -1189357200, -1176055200,
      -1157302800, -1144605600, -1125853200, -1112551200, -1094403600, -1081101600,
      -1062954000, -1049652000, -1031504400, -1018202400, -1000054800, -986752800,
      -968000400, -955303200, -936550800, -923248800, -905101200, -891799200, -880218000,
      -765396000, -747248400, -733946400, -715798800, -702496800, -684349200, -671047200,
      -652899600, -639597600, -620845200, -608148000, -589395600, -576093600, -557946000,
      -544644000, -526496400, -513194400, -495046800, -481744800, -463597200, -447271200,
      -431542800, -415821600, -400093200, -384372000, -368643600, -352922400, -337194000,
      -321472800, -305744400, -289418400, -273690000, -257968800, -242240400, -226519200,
      -210790800, -195069600, -179341200, -163620000, -147891600, -131565600, -116442000,
      -100116000, -84387600, -68666400, -52938000, -37216800, -21488400, -5767200,
      9961200, 25682400, 41410800, 57736800, 73465200, 89186400, 104914800, 120636000,
      126687600, 152085600, 162370800, 183535200, 199263600, 215589600, 230713200,
      247039200, 262767600, 278488800, 294217200, 309938400, 325666800, 341388000,
      357116400, 372837600, 388566000, 404892000, 420015600, 436341600, 452070000,
      467791200, 483519600, 499240800, 514969200, 530690400, 544604400, 562140000,
      576054000, 594194400, 607503600, 625644000, 638953200, 657093600, 671007600,
      688543200, 702457200, 719992800, 733906800, 752047200, 765356400, 783496800,
      796806000, 814946400, 828860400, 846396000, 860310000, 877845600, 891759600,
      909295200, 923209200, 941349600, 954658800, 972799200, 986108400, 1004248800,
      1018162800, 1035698400, 1049612400, 1067148000, 1081062000, 1099202400, 1112511600,
      1130652000, 1143961200, 1162101600, 1173596400, 1194156000, 1205046000, 1225605600,
      1236495600, 1257055200, 1268550000, 1289109600, 1299999600, 1320559200, 1331449200,
      1352008800, 1362898800, 1383458400, 1394348400, 1414908000, 1425798000, 1446357600,
      1457852400, 1478412000, 1489302000, 1509861600, 1520751600, 1541311200, 1552201200,
      1572760800, 1583650800, 1604210400, 1615705200, 1636264800, 1647154800, 1667714400,
      1678604400, 1699164000, 1710054000, 1730613600, 1741503600, 1762063200, 1772953200,
      1793512800, 1805007600, 1825567200, 1836457200, 1857016800, 1867906800, 1888466400,
      1899356400, 1919916000, 1930806000, 1951365600, 1962860400, 1983420000, 1994310000,
      2014869600, 2025759600, 2046319200, 2057209200, 2077768800, 2088658800, 2109218400,
      2120108400, 2140668000>>

\* (mutant) the date of the instant taken in UTC
UtcDate(published_at) == published_at \div 86400

\* published_at.astimezone(ZoneInfo("America/New_York")).date(), as days since
\* 1970-01-01
NyDate(published_at) ==
    LET passed == Cardinality({k \in 1..Len(NewYorkTransitions) :
                                  NewYorkTransitions[k] <= published_at})
        utcoffset == IF passed % 2 = 1 THEN 0 - 14400 ELSE 0 - 18000
        \* the offset is less than a day: it moves the date back by one or not
    IN IF (published_at % 86400) + utcoffset < 0 THEN (published_at \div 86400) - 1
       ELSE published_at \div 86400

\* date.isoformat() of the day that many days after 1970-01-01
IsoFormat(days) ==
    LET z == days + 719468
        era == z \div 146097
        doe == z - era * 146097
        yoe == (doe - doe \div 1460 + doe \div 36524 - doe \div 146096) \div 365
        doy == doe - (365 * yoe + yoe \div 4 - yoe \div 100)
        mp == (5 * doy + 2) \div 153
        day == doy - (153 * mp + 2) \div 5 + 1
        month == IF mp < 10 THEN mp + 3 ELSE mp - 9
        year == yoe + era * 400 + (IF month <= 2 THEN 1 ELSE 0)
        TwoDigits(n) == IF n < 10 THEN "0" \o StrOf(n) ELSE StrOf(n)
    IN StrOf(year) \o "-" \o TwoDigits(month) \o "-" \o TwoDigits(day)

\* _rank_items: the pairs (published_at, item), newest first; the sort is
\* stable and its key puts a pair without timestamp at datetime.min, before
\* every instant.  An item is kept as its position in the list; ts is
\* item.get("datetime") or item.get("published_at") and the timestamp is
\* _parse_finnhub_timestamp(ts) of an int or of None.
RankItems(items) ==
    LET Falsy(value) == value = None \/ value = <<0>>
        Timestamp(item) == IF ~Falsy(item.datetime) THEN item.datetime
                           ELSE item.published_at
        KeyAbove(a, b) == a # None /\ (b = None \/ a[1] > b[1])
        RECURSIVE RankInsert(_, _)
        RankInsert(pair, ranked) ==
            IF ranked = <<>> THEN <<pair>>
            ELSE IF KeyAbove(pair[1], Head(ranked)[1]) THEN <<pair>> \o ranked
            ELSE <<Head(ranked)>> \o RankInsert(pair, Tail(ranked))
        RECURSIVE Ranked(_)
        Ranked(n) == IF n = 0 THEN <<>>
                     ELSE RankInsert(<<Timestamp(items[n]), n>>, Ranked(n - 1))
    IN Ranked(Len(items))

\* _limit_items_per_day(ranked, limit, nyc_tz): the pairs whose item is kept
LimitItemsPerDay(ranked, limit) ==
    LET DateKey(published_at) ==
            IF published_at # None THEN IsoFormat(NyDate(published_at[1])) ELSE "unknown"
        Count(kept, date_key) ==
            Cardinality({i \in 1..Len(kept) : DateKey(kept[i][1]) = date_key})
        RECURSIVE Loop(_, _)
        Loop(rest, kept) ==
            IF rest = <<>> THEN kept
            ELSE IF Count(kept, DateKey(Head(rest)[1])) >= limit THEN Loop(Tail(rest), kept)
            ELSE Loop(Tail(rest), Append(kept, Head(rest)))
    IN IF limit <= 0 THEN ranked ELSE Loop(ranked, <<>>)

\* One iteration of "for symbol in tickers": FinnhubError is logged and the
\* loop continues; any other exception leaves the loop for the handler of
\* main.  The answers of the server carry no Retry-After header, and the
\* feeds are shorter than the per-day and per-run caps, so every item is
\* kept.
FetchTicker(r) ==
    /\ ipc[r] = "fetch"
    /\ LET symbol == Head(tickers_left[r])
           rest == Tail(tickers_left[r])
       IN \E responses \in [1..MaxHttpAttempts -> HttpResponses], payload_is_list \in BOOLEAN :
            LET given == [i \in 1..MaxHttpAttempts |->
                             [status |-> responses[i], retry_after |-> NoHeader]]
                got == FetchCompanyNews(given, payload_is_list)
            IN
              IF got \in {"http_status_error", "value_error"}
              THEN /\ ipc' = [ipc EXCEPT ![r] = "fail"]
                   /\ UNCHANGED <<tickers_left, raw_items>>
              ELSE /\ raw_items' = [raw_items EXCEPT ![r] =
                                      IF got = "items" THEN @ \cup upstream[symbol] ELSE @]
                   /\ tickers_left' = [tickers_left EXCEPT ![r] = rest]
                   /\ ipc' = [ipc EXCEPT ![r] = IF rest = <<>> THEN "insert_raw" ELSE "fetch"]
    /\ UNCHANGED <<analysis_jobs, queue_side, intake_db, intake_env, exit_code, tx_aborted,
                   raw_rows, selected>>

\* --------------------------------------------------------------- raw_store
RawMaxAttempts == 3

\* the fields of the RawNewsRow dataclass
RawNewsRowFields == {"raw_id", "raw_payload"}

\* now_utc of a run: main() reads the clock before it connects, so the runs
\* are numbered in the order they started, whatever order they get the lock in
NowUtc(r) == r

\* insert_raw_items: one row per dedup key; a key already stored keeps its
\* status and attempts and takes the new payload and fetched_at
InsertRawItems(r) ==
    /\ ipc[r] = "insert_raw"
    /\ IF raw_items[r] = {}
       THEN /\ ipc' = [ipc EXCEPT ![r] = "select"]
            /\ UNCHANGED <<raw_news_items, tx_aborted>>
       ELSE \E fails \in StatementFails :
              IF fails
              THEN /\ tx_aborted' = [tx_aborted EXCEPT ![r] = TRUE]
                   /\ ipc' = [ipc EXCEPT ![r] = "fail"]
                   /\ UNCHANGED raw_news_items
              ELSE /\ raw_news_items' =
                        [k \in DOMAIN raw_news_items |->
                           LET new == {i \in raw_items[r] : DedupKey(i) = k}
                               old == raw_news_items[k]
                           IN IF new = {} THEN old
                              ELSE [status |-> IF old.status = "none" THEN "fetched"
                                               ELSE old.status,
                                    attempts |-> old.attempts,
                                    payload |-> CHOOSE i \in new : TRUE,
                                    last_error |-> old.last_error,
                                    fetched_at |-> NowUtc(r)]]
                   /\ ipc' = [ipc EXCEPT ![r] = "select"]
                   /\ UNCHANGED tx_aborted
    /\ UNCHANGED <<analysis_jobs, queue_side, news_events, ingestion_runs, advisory_lock,
                   intake_env, exit_code, tickers_left, raw_items, raw_rows, selected>>

\* the rows select_raw_items may return
EligibleRaw ==
    {k \in DOMAIN raw_news_items :
        /\ raw_news_items[k].status \in {"fetched", "failed"}
        /\ raw_news_items[k].attempts < RawMaxAttempts}

\* ORDER BY fetched_at DESC LIMIT limit: every order the database may give
SelectOrders(limit) ==
    LET n == IF Cardinality(EligibleRaw) < limit THEN Cardinality(EligibleRaw) ELSE limit IN
      {q \in [1..n -> EligibleRaw] :
         /\ \A i, j \in 1..n : i < j =>
               /\ q[i] # q[j]
               /\ raw_news_items[q[i]].fetched_at >= raw_news_items[q[j]].fetched_at
         /\ \A k \in EligibleRaw : (\A i \in 1..n : q[i] # k) =>
               \A i \in 1..n : raw_news_items[q[i]].fetched_at >= raw_news_items[k].fetched_at}

\* select_raw_items(conn, SOURCE, limit) and the test of an empty batch
SelectRawItems(r) ==
    /\ ipc[r] = "select"
    /\ \E fails \in StatementFails :
         IF fails
         THEN /\ tx_aborted' = [tx_aborted EXCEPT ![r] = TRUE]
              /\ ipc' = [ipc EXCEPT ![r] = "fail"]
              /\ UNCHANGED <<raw_rows, selected>>
         ELSE \E q \in SelectOrders(ProcessLimit) :
                /\ raw_rows' = [raw_rows EXCEPT ![r] = q]
                /\ selected' = [selected EXCEPT ![r] = {q[i] : i \in 1..Len(q)}]
                /\ ipc' = [ipc EXCEPT ![r] = IF q = <<>> THEN "finish" ELSE "rows"]
                /\ UNCHANGED tx_aborted
    /\ UNCHANGED <<analysis_jobs, queue_side, intake_db, intake_env, exit_code, tickers_left,
                   raw_items>>

\* mark_raw_normalized / mark_raw_failed on the row of this key
MarkRawNormalized(k) ==
    [raw_news_items EXCEPT ![k].status = "normalized", ![k].attempts = @ + 1,
                           ![k].last_error = NoText]
MarkRawFailed(k, message) ==
    [raw_news_items EXCEPT ![k].status = "failed", ![k].attempts = @ + 1,
                           ![k].last_error = message]

\* One iteration of "for raw_row in raw_rows".  The try block reads
\* raw_row.request_ticker for the call of normalize_finnhub and both handlers
\* read raw_row.id for mark_raw_failed; reading an attribute the dataclass
\* does not have raises AttributeError.  An exception of the try block goes
\* to the handlers; an exception of a handler leaves the loop for the handler
\* of main.  When publish_job raises in the database, the handler's
\* mark_raw_failed runs on the aborted transaction and raises as well.
ProcessRawRow(r) ==
    /\ ipc[r] = "rows"
    /\ LET k == Head(raw_rows[r])
           rest == Tail(raw_rows[r])
           has_ticker == "request_ticker" \in RawNewsRowFields
           has_id == "id" \in RawNewsRowFields
           next == IF rest = <<>> THEN "finish" ELSE "rows"
           Marked(normalized, event_id, stored, published) ==
               /\ news_events' = IF stored THEN news_events \cup {event_id} ELSE news_events
               /\ analysis_jobs' = IF published THEN PublishInto(analysis_jobs, event_id)
                                   ELSE analysis_jobs
               /\ IF published /\ has_id
                  THEN /\ raw_news_items' = MarkRawNormalized(k)
                       /\ raw_rows' = [raw_rows EXCEPT ![r] = rest]
                       /\ ipc' = [ipc EXCEPT ![r] = next]
                  ELSE IF has_id /\ ~(stored /\ ~published)
                  THEN /\ raw_news_items' =
                            MarkRawFailed(k, IF normalized = NormalizationErrorText
                                             THEN NormalizationErrorText
                                             ELSE "unexpected_error")
                       /\ raw_rows' = [raw_rows EXCEPT ![r] = rest]
                       /\ ipc' = [ipc EXCEPT ![r] = next]
                  ELSE /\ ipc' = [ipc EXCEPT ![r] = "fail"]
                       /\ UNCHANGED <<raw_news_items, raw_rows>>
               /\ tx_aborted' = IF stored /\ ~published
                                THEN [tx_aborted EXCEPT ![r] = TRUE] ELSE tx_aborted
           Normalized(normalized, event_id) ==
               Marked(normalized, event_id, normalized = "ok",
                      normalized = "ok" /\ "news_id" \in analysis_jobs_columns)
           Row(payload) ==
               Normalized(IF has_ticker THEN NormalizeFinnhub(payload) ELSE "AttributeError",
                          EventIdOf(payload))
       IN Row(raw_news_items[k].payload)
    /\ UNCHANGED <<queue_side, ingestion_runs, advisory_lock, intake_env, exit_code,
                   tickers_left, raw_items, selected>>

\* _finish_ingestion_run(... "succeeded" ...), which commits, up to the
\* "return 0" that follows it; the connection is still open
FinishSucceeded(r) ==
    /\ ipc[r] = "finish"
    /\ \E fails \in StatementFails :
         IF fails
         THEN /\ tx_aborted' = [tx_aborted EXCEPT ![r] = TRUE]
              /\ ipc' = [ipc EXCEPT ![r] = "fail"]
              /\ UNCHANGED ingestion_runs
         ELSE /\ ingestion_runs' = [ingestion_runs EXCEPT ![r] = "succeeded"]
              /\ ipc' = [ipc EXCEPT ![r] = "return_0"]
              /\ UNCHANGED tx_aborted
    /\ UNCHANGED <<analysis_jobs, queue_side, raw_news_items, news_events, advisory_lock,
                   intake_env, exit_code, tickers_left, raw_items, raw_rows, selected>>

\* "except Exception" of main up to its "return 1": without a run_id nothing
\* is written; with one, _finish_ingestion_run(... "failed" ...) runs on the
\* connection the exception left.  After a failed statement the transaction
\* is aborted (there is no rollback) and the UPDATE raises too; the UPDATE
\* can also fail in the database itself.  Either way the exception leaves
\* main() with the row as it was.
FinishFailed(r) ==
    /\ ipc[r] = "fail"
    /\ IF ingestion_runs[r] = "none"
       THEN /\ ipc' = [ipc EXCEPT ![r] = "return_1"]
            /\ UNCHANGED <<ingestion_runs, tx_aborted>>
       ELSE \E fails \in (IF tx_aborted[r] THEN {TRUE} ELSE StatementFails) :
              IF fails
              THEN /\ tx_aborted' = [tx_aborted EXCEPT ![r] = TRUE]
                   /\ ipc' = [ipc EXCEPT ![r] = "raise"]
                   /\ UNCHANGED ingestion_runs
              ELSE /\ ingestion_runs' = [ingestion_runs EXCEPT ![r] = "failed"]
                   /\ ipc' = [ipc EXCEPT ![r] = "return_1"]
                   /\ UNCHANGED tx_aborted
    /\ UNCHANGED <<analysis_jobs, queue_side, raw_news_items, news_events, advisory_lock,
                   intake_env, exit_code, tickers_left, raw_items, raw_rows, selected>>

\* "finally: conn.close()" after a return statement or on the way out of an
\* exception nothing caught; the interpreter ends with status 1 on such an
\* exception
CloseAndReturn(r) ==
    /\ ipc[r] \in {"return_0", "return_1", "raise"}
    /\ CloseConnection(r, "exited", IF ipc[r] = "return_0" THEN 0 ELSE 1)
    /\ UNCHANGED <<analysis_jobs, queue_side, raw_news_items, news_events, ingestion_runs,
                   intake_env, tx_aborted, tickers_left, raw_items, raw_rows, selected>>

\* the process dies between two statements; the server ends its session
CrashRun(r) ==
    /\ ipc[r] \in IntakeLive
    /\ ipc' = [ipc EXCEPT ![r] = "crashed"]
    /\ advisory_lock' = IF advisory_lock = r THEN 0 ELSE advisory_lock
    /\ UNCHANGED <<analysis_jobs, queue_side, raw_news_items, news_events, ingestion_runs,
                   intake_env, exit_code, tx_aborted, tickers_left, raw_items, raw_rows,
                   selected>>

RunStep(r) ==
    \/ TryAdvisoryLock(r)
    \/ InsertIngestionRun(r)
    \/ FetchTicker(r)
    \/ InsertRawItems(r)
    \/ SelectRawItems(r)
    \/ ProcessRawRow(r)
    \/ FinishSucceeded(r)
    \/ FinishFailed(r)
    \/ CloseAndReturn(r)

\* ------------------------------------------------------------------- Next
\* one statement of a worker whose shutdown flag stays up
WorkerStep(w) ==
    \/ LoopTest(w)
    \/ RecoverStuckJobs(w)
    \/ ClaimJobs(w)
    \/ TakeJob(w)
    \/ BeginAnalysis(w)
    \/ UpdateInitFailed(w)
    \/ ProviderCall(w)
    \/ ReplaceAnalysisTickers(w)
    \/ MarkJob(w)

\* Workers that are never signalled and may stall for any time at any
\* statement (for the tables, a worker that dies is one that stalls for good).
Next ==
    \/ \E w \in Workers : WorkerStep(w)
    \/ \E j \in JobIds : InsertJob(j)
    \/ Tick

Spec == Init /\ [][Next]_vars

\* The same workers in runs that respect the operating rule of the queue: the
\* visibility timeout exceeds the time any single job takes.
InitTimely ==
    /\ Boot
    /\ QueueOnly
    /\ max_attempts \in 1..MaxMaxAttempts
    /\ batch_size \in 1..MaxBatchSize
    /\ visibility_timeout = 3
    /\ once = FALSE
    /\ client_ok \in BOOLEAN
    /\ provider_outcomes = {"ok", "timeout", "quota", "ok_bytes"}

NextTimely ==
    \/ \E w \in Workers : WorkerStep(w)
    \/ \E j \in JobIds : InsertJob(j)
    \/ TickTimely

SpecTimely == InitTimely /\ [][NextTimely]_vars

\* The same timely runs with the default budget of three attempts, so that a
\* job can fail, be retried, fail again and be retried again.
DefaultMaxAttempts == 3

InitBackoff ==
    /\ Boot
    /\ QueueOnly
    /\ max_attempts = DefaultMaxAttempts
    /\ batch_size \in 1..MaxBatchSize
    /\ visibility_timeout = 3
    /\ once = FALSE
    /\ client_ok \in BOOLEAN
    /\ provider_outcomes = {"ok", "timeout"}

SpecBackoff == InitBackoff /\ [][NextTimely]_vars

\* Worker processes that can die, and one worker that keeps looping while the
\* clock keeps running.
LiveWorker == CHOOSE w \in Workers : \A v \in Workers : w <= v

\* Every lease of a live worker ends in a done write or in a failure write
\* (a verdict that cannot be stored, or no client); the budget is
\* LiveMaxAttempts, one attempt, so a failure write is final.
LiveMaxAttempts == 1

InitLive ==
    /\ Boot
    /\ QueueOnly
    /\ visibility_timeout = 1
    /\ once = FALSE
    /\ max_attempts = LiveMaxAttempts
    /\ batch_size \in 1..MaxBatchSize
    /\ client_ok \in BOOLEAN
    /\ provider_outcomes = {"ok", "ok_bytes"}

NextLive ==
    \/ \E w \in Workers : WorkerStep(w)
    \/ \E j \in JobIds : InsertJob(j)
    \/ \E w \in Workers \ {LiveWorker} : Crash(w)
    \/ Tick

LiveSpec ==
    /\ InitLive
    /\ [][NextLive]_vars
    /\ WF_vars(WorkerStep(LiveWorker))
    /\ WF_vars(Tick)

\* One worker process against a provider that can answer in every way the
\* loop distinguishes, or that only ever returns text that fails to parse or
\* to validate.
ParseOutcomes ==
    {"json_decode", "json_extra", "json_root", "validation", "validation_403",
     "validation_missing"}

InitAnalysis ==
    /\ Boot
    /\ analysis_jobs_columns = AnalysisJobsColumns
    /\ PureIdle
    /\ NoRawRows
    /\ OnlyLlmJobs
    /\ EventsStored
    /\ upstream = [t \in Tickers |-> {}]
    /\ db_faults = FALSE
    /\ replay_only = [r \in Runs |-> FALSE]
    /\ max_publishes = 1
    /\ max_attempts \in 1..MaxMaxAttempts
    /\ batch_size \in 1..MaxBatchSize
    /\ visibility_timeout = 1
    /\ once = FALSE
    /\ client_ok \in BOOLEAN
    /\ provider_outcomes \in {ProviderOutcomes, ParseOutcomes}

NextAnalysis ==
    \/ WorkerStep(LiveWorker)
    \/ \E j \in JobIds : InsertJob(j)
    \/ Tick

SpecAnalysis == InitAnalysis /\ [][NextAnalysis]_vars

\* One worker process and the two ways the repository puts a job into the
\* queue, publish_job and the insert of the worker's tests, on each of the
\* tables the statements can meet.
InitPublish ==
    /\ Boot
    /\ PureIdle
    /\ NoRawRows
    /\ OnlyLlmJobs
    /\ EventsStored
    /\ upstream = [t \in Tickers |-> {}]
    /\ db_faults = FALSE
    /\ replay_only = [r \in Runs |-> FALSE]
    /\ max_publishes = MaxPublishes
    /\ max_attempts = MaxMaxAttempts
    /\ batch_size = MaxBatchSize
    /\ visibility_timeout = 1
    /\ once = FALSE
    /\ client_ok \in BOOLEAN
    /\ provider_outcomes = {"ok", "timeout", "ok_bytes"}

NextPublish ==
    \/ WorkerStep(LiveWorker)
    \/ \E e \in JobIds : InsertJob(e)
    \/ \E e \in JobIds : PublishJob(e)
    \/ Tick

SpecPublish == InitPublish /\ [][NextPublish]_vars

\* One worker process that can be signalled, against a queue that also holds
\* jobs of a type the worker has no branch for, and events that may have no
\* row.
InitService ==
    /\ Boot
    /\ analysis_jobs_columns = AnalysisJobsColumns
    /\ PureIdle
    /\ NoRawRows
    /\ job_type \in [JobIds -> {"llm_analysis", "embedding"}]
    /\ news_events \in SUBSET JobIds
    /\ upstream = [t \in Tickers |-> {}]
    /\ db_faults = FALSE
    /\ replay_only = [r \in Runs |-> FALSE]
    /\ max_publishes = 1
    /\ max_attempts = MaxMaxAttempts
    /\ batch_size = MaxBatchSize
    /\ visibility_timeout = 1
    /\ once = FALSE
    /\ client_ok \in BOOLEAN
    /\ provider_outcomes = {"ok", "timeout", "ok_bytes"}

NextService ==
    \/ WorkerStep(LiveWorker)
    \/ ProcessOtherJob(LiveWorker)
    \/ Shutdown(LiveWorker)
    \/ LoopExit(LiveWorker)
    \/ \E j \in JobIds : InsertJob(j)
    \/ Tick

SpecService == InitService /\ [][NextService]_vars

\* ======================================================================
\* The pure functions on their own: canonicalize_url on two URL texts that
\* are variants of one another and on its own result, _is_retryable_error on
\* an error message
\* ======================================================================
RECURSIVE Joined(_, _)
Joined(fields, c) ==
    IF fields = <<>> THEN <<>>
    ELSE Head(fields) \o (IF Len(fields) > 1 THEN <<c>> ELSE <<>>) \o Joined(Tail(fields), c)

\* the URLs two variants are made of: a scheme (or none), an authority (or
\* none) with upper case, user, port, bracketed address with zone, a capital
\* sigma, a full-width solidus (65295) or an Arabic-Indic digit as port, a
\* path and the query fields that are kept, with escapes of a line feed, of
\* UTF-8 bytes and of a byte that is no UTF-8, and a lone surrogate (55357)
UrlSchemes == {CodePoints(t) : t \in {"http:", "HTTPS:", "git:", "mailto:", ""}}
UrlAuthorities ==
    {CodePoints(t) : t \in {"", "//a.b", "//A.b:080", "//u:p@a.b:0", "//[::1]",
                            "//[FE80::1%En0]:65536", "//a.b]"}}
        \cup {<<47, 47, 927, 931, 46, 98>>, <<47, 47, 97, 65295, 98>>,
              <<47, 47, 97, 46, 98, 58, 1635>>}
UrlPaths == {CodePoints(t) : t \in {"", "/p/", "//p", "/p "}}
UrlKeptFields ==
    {<<>>,
     <<CodePoints("b=2"), CodePoints("a=b+c")>>,
     <<CodePoints("a=%C3%A9%0a"), CodePoints("A=%ff%e2%82"), <<233>>>>,
     <<CodePoints("a="), <<97, 61, 55357>>>>}

\* the pairs of URLs explored: the first is a URL (a text that is not empty)
\* as it stands, the second a variant of it, with the kept fields in either
\* order, a tracking field before or after them, and any fragment; both may
\* stand between the same white space
UrlBases == {scheme \o authority \o path :
                scheme \in UrlSchemes, authority \in UrlAuthorities, path \in UrlPaths}
                \ {<<>>}
UrlTrackingFields ==
    {CodePoints(t) : t \in {"utm_source=x", "UTM_Medium=y", "Ref=2", "%75tm_x=1"}}
UrlFragments == {CodePoints(t) : t \in {"", "f", "f?a=1"}}
UrlPadding == {<<<<>>, <<>>>>, <<<<32>>, <<10, 160>>>>}
UrlFieldVariants ==
    LET Reversed(fields) == [i \in 1..Len(fields) |-> fields[Len(fields) + 1 - i]]
    IN UNION {{<<kept, fields>> :
                  fields \in {kept, Reversed(kept)}
                                \cup {<<t>> \o kept : t \in UrlTrackingFields}
                                \cup {Reversed(kept) \o <<t>> : t \in UrlTrackingFields}} :
                kept \in UrlKeptFields}
UrlText(base, fields, fragment) ==
    base \o (IF fields = <<>> THEN <<>> ELSE <<Ascii.question>> \o Joined(fields, Ascii.amp))
         \o (IF fragment = <<>> THEN <<>> ELSE <<Ascii.hash>> \o fragment)
UrlPairs ==
    {<<pad[1] \o UrlText(base, fields[1], <<>>) \o pad[2],
       pad[1] \o UrlText(base, fields[2], fragment) \o pad[2]>> :
          base \in UrlBases, fields \in UrlFieldVariants, fragment \in UrlFragments,
          pad \in UrlPadding}

\* the error messages explored: up to three pieces of text, joined
Messages ==
    LET pieces == {"", "Timeout", "json", "VALIDATION", "insufficient_quota", "401",
                   "HTTP 403", "40", "x"}
    IN {NoText} \cup {a \o b \o c : a \in pieces, b \in pieces, c \in pieces}

InitPure ==
    /\ Boot
    /\ analysis_jobs_columns = AnalysisJobsColumns
    /\ NoRawRows
    /\ OnlyLlmJobs
    /\ EventsStored
    /\ upstream = [t \in Tickers |-> {}]
    /\ db_faults = FALSE
    /\ replay_only = [r \in Runs |-> FALSE]
    /\ max_publishes = 1
    /\ max_attempts = 1
    /\ batch_size = 1
    /\ visibility_timeout = 1
    /\ once = FALSE
    /\ client_ok = TRUE
    /\ provider_outcomes = {"ok"}
    /\ FetchIdle
    /\ canonical = <<>>
    /\ verdict = <<>>
    /\ \/ /\ pure_fn = "canonicalize_url"
          /\ urls \in UrlPairs
          /\ error_text = NoText
       \/ /\ pure_fn = "_is_retryable_error"
          /\ urls = <<>>
          /\ error_text \in Messages

\* canonicalize_url(url), on the first and then on the second text
CallCanonicalize ==
    /\ pure_fn = "canonicalize_url"
    /\ Len(canonical) < 2
    /\ canonical' = Append(canonical, Canonicalize(urls[Len(canonical) + 1]))
    /\ UNCHANGED <<db, analysis_jobs_columns, max_attempts, batch_size, visibility_timeout,
                   once, client_ok,
                   provider_outcomes, job_type, pure_fn, urls, retry_fn, fetch_fn, pc,
                   running, locals, exec_time, history, publishing, intake>>

\* canonicalize_url(canonicalize_url(url)) for the first text, when accepted
CallCanonicalizeAgain ==
    /\ pure_fn = "canonicalize_url"
    /\ Len(canonical) = 2
    /\ canonical[1] # ValueError
    /\ canonical' = Append(canonical, Canonicalize(canonical[1]))
    /\ UNCHANGED <<db, analysis_jobs_columns, max_attempts, batch_size, visibility_timeout,
                   once, client_ok,
                   provider_outcomes, job_type, pure_fn, urls, retry_fn, fetch_fn, pc,
                   running, locals, exec_time, history, publishing, intake>>

\* _is_retryable_error(error_message)
CallIsRetryable ==
    /\ pure_fn = "_is_retryable_error"
    /\ verdict = <<>>
    /\ verdict' = <<IsRetryableError(error_text)>>
    /\ UNCHANGED <<db, analysis_jobs_columns, max_attempts, batch_size, visibility_timeout,
                   once, client_ok,
                   provider_outcomes, job_type, pure_fn, url_fn, error_text, fetch_fn, pc,
                   running, locals, exec_time, history, publishing, intake>>

NextPure ==
    \/ CallCanonicalize
    \/ CallCanonicalizeAgain
    \/ CallIsRetryable

SpecPure == InitPure /\ [][NextPure]_vars

\* ======================================================================
\* One upstream call and the rate shaping of one ticker's items on their
\* own: _request_with_retries against every sequence of answers, and
\* _rank_items / _limit_items_per_day / the per-run cap on every short list
\* of items under every pair of caps
\* ======================================================================
MaxItems == 3
MaxCap == 2

\* the Retry-After headers explored: a number of seconds, a decimal, a
\* word, the empty header, the Arabic-Indic digit three (1635), a superscript
\* two (178) and "1" with a superscript two
RetryAfterHeaders ==
    {CodePoints(h) : h \in {"0", "2", "07", "1.5", "soon", ""}}
        \cup {<<1635>>, <<178>>, <<49, 178>>}

\* a 200, a 404, a transport error, and a 429 or 503 with or without a
\* Retry-After header
Answers ==
    {[status |-> s, retry_after |-> NoHeader] : s \in HttpResponses}
        \cup {[status |-> s, retry_after |-> h] : s \in {429, 503}, h \in RetryAfterHeaders}

\* the instants explored: five of 2024 (two of them on one New York date but
\* on two UTC dates, two under daylight saving time), four of 2006, when
\* daylight saving time began in April, two of September 1945 and the first
\* hour of 1970
Instants ==
    {1705293000, 1705296600, 1705370400, 1719804600, 1719808200, 1142397000, 1142434800,
     1151728200, 1151755200, 0 - 767907000, 0 - 767880000, 3600}

\* items by their timestamp keys: an instant as datetime, no key at all, the
\* datetime 0 with or without published_at, and published_at alone, be it 0
StampedItems ==
    {[datetime |-> <<d>>, published_at |-> None] : d \in Instants}
        \cup {[datetime |-> None, published_at |-> None],
              [datetime |-> <<0>>, published_at |-> None],
              [datetime |-> <<0>>, published_at |-> <<1705370400>>],
              [datetime |-> None, published_at |-> <<1719808200>>],
              [datetime |-> None, published_at |-> <<0>>]}

InitFetch ==
    /\ Boot
    /\ analysis_jobs_columns = AnalysisJobsColumns
    /\ NoRawRows
    /\ OnlyLlmJobs
    /\ EventsStored
    /\ upstream = [t \in Tickers |-> {}]
    /\ db_faults = FALSE
    /\ replay_only = [r \in Runs |-> FALSE]
    /\ max_publishes = 1
    /\ max_attempts = 1
    /\ batch_size = 1
    /\ visibility_timeout = 1
    /\ once = FALSE
    /\ client_ok = TRUE
    /\ provider_outcomes = {"ok"}
    /\ urls = <<>>
    /\ canonical = <<>>
    /\ error_text = NoText
    /\ verdict = <<>>
    /\ request_result = [outcome |-> "none", sleeps |-> <<>>]
    /\ shaped = [daily_limited |-> <<>>, latest_items |-> <<>>]
    /\ \/ /\ pure_fn = "_request_with_retries"
          /\ answers \in [1..MaxHttpAttempts -> Answers]
          /\ fetched_items = <<>>
          /\ daily_max = 0
          /\ latest_per_run = 0
       \/ /\ pure_fn = "rate_shaping"
          /\ answers = <<>>
          /\ fetched_items \in UNION {[1..n -> StampedItems] : n \in 1..MaxItems}
          /\ daily_max \in (0 - 1)..MaxCap
          /\ latest_per_run \in (0 - 1)..MaxCap

\* _request_with_retries(client, url, params)
CallRequestWithRetries ==
    /\ pure_fn = "_request_with_retries"
    /\ request_result.outcome = "none"
    /\ request_result' =
          RequestWithRetries(answers, 1)
    /\ UNCHANGED <<db, analysis_jobs_columns, max_attempts, batch_size, visibility_timeout,
                   once, client_ok,
                   provider_outcomes, job_type, pure_fn, url_fn, retry_fn, answers,
                   fetched_items, daily_max, latest_per_run, shaped, pc, running, locals,
                   exec_time, history, publishing, intake>>

\* the body of "for symbol in tickers" after fetch_company_news returned:
\* ranked, daily_limited and latest_items, each item as its position in items
ShapeItems ==
    /\ pure_fn = "rate_shaping"
    /\ shaped.daily_limited = <<>>
    /\ LET daily_limited == LimitItemsPerDay(RankItems(fetched_items), daily_max)
           latest_items ==
               IF latest_per_run > 0 /\ Len(daily_limited) > latest_per_run
               THEN SubSeq(daily_limited, 1, latest_per_run)
               ELSE daily_limited
           ItemsOf(pairs) == [i \in 1..Len(pairs) |-> pairs[i][2]]
       IN shaped' = [daily_limited |-> ItemsOf(daily_limited),
                     latest_items |-> ItemsOf(latest_items)]
    /\ UNCHANGED <<db, analysis_jobs_columns, max_attempts, batch_size, visibility_timeout,
                   once, client_ok,
                   provider_outcomes, job_type, pure_fn, url_fn, retry_fn, answers,
                   request_result, fetched_items, daily_max, latest_per_run, pc, running,
                   locals, exec_time, history, publishing, intake>>

SpecFetch == InitFetch /\ [][CallRequestWithRetries \/ ShapeItems]_vars

\* ======================================================================
\* Claims about the work queue
\* ======================================================================

\* C1: every job a claim returns is returned to exactly one worker: a job is
\* never returned by two claims unless a failure write or the stuck-lease
\* sweep put it back to pending in between.
C1_ClaimedByOneWorker ==
    \A j \in JobIds : claim_count[j] <= 1

\* a job is in its second lease: the sweep took the first one away and a
\* claim has returned the job again
C1_Witness ==
    \E j \in JobIds :
        /\ reclaimed[j]
        /\ claim_count[j] = 1
        /\ analysis_jobs[j].status = "running"

\* C3: a job with status running has both locked_at and locked_by set.
C3_RunningHasLease ==
    \A j \in JobIds :
        analysis_jobs[j].status = "running" =>
            analysis_jobs[j].locked_at # NULL /\ analysis_jobs[j].locked_by # NULL

\* a job is running again after a failure write had cleared its lease
C3_Witness ==
    \E j \in JobIds :
        /\ analysis_jobs[j].status = "running"
        /\ analysis_jobs[j].attempts > 0

\* C4: every job satisfies attempts <= MAX_ATTEMPTS, under any interleaving of
\* claims, sweeps and done/failed writes.
C4_AttemptsWithinBudget ==
    \A j \in JobIds : analysis_jobs[j].attempts <= max_attempts

\* C5 (first half): a job whose attempts has reached MAX_ATTEMPTS has status
\* failed, never pending or running (nor done).
C5_ExhaustedIsFailed ==
    \A j \in JobIds :
        analysis_jobs[j].attempts >= max_attempts => analysis_jobs[j].status = "failed"

\* C5: a job whose attempts has reached MAX_ATTEMPTS has status failed, and it
\* stays failed from then on.
C5_ExhaustedStaysFailed ==
    /\ [](C5_ExhaustedIsFailed)
    /\ [][\A j \in JobIds :
            (analysis_jobs[j].attempts >= max_attempts /\ analysis_jobs[j].status = "failed")
                => analysis_jobs'[j].status = "failed"]_vars

\* the analysis of job j is in progress in worker w
Executing(w, j) ==
    /\ pc[w] \in AnalysisPcs
    /\ Head(batch[w]).id = j

\* C2: exactly one in flight per job: when the execution of each single job
\* takes less than visibility_timeout (every run of SpecTimely), at most one
\* worker at a time is executing the analysis of a given job.
C2_OneInFlight ==
    \A j \in JobIds : \A v, w \in Workers :
        Executing(v, j) /\ Executing(w, j) => v = w

\* C6 (state part): a job whose every lease ends in a failure write (none is
\* taken away by the sweep) never has more than MAX_ATTEMPTS failed leases and
\* is in status failed once it has MAX_ATTEMPTS of them.
C6_FailedAfterBudget ==
    \A j \in JobIds :
        ~reclaimed[j] =>
            /\ failure_writes[j] <= max_attempts
            /\ failure_writes[j] = max_attempts => analysis_jobs[j].status = "failed"

\* C6: retry budget: a job whose every lease ends in a failure is in status
\* failed after at most MAX_ATTEMPTS such leases, and once its status is failed
\* no worker claims it again.
C6_RetryBudget ==
    /\ [](C6_FailedAfterBudget)
    /\ [][\A j \in JobIds :
            (~reclaimed'[j] /\ analysis_jobs[j].status = "failed")
                => analysis_jobs'[j].status = "failed"]_vars

\* a job used its whole budget of two leases: a retry, then the terminal failure
C6_Witness ==
    \E j \in JobIds :
        /\ ~reclaimed[j]
        /\ failure_writes[j] = max_attempts
        /\ max_attempts > 1
        /\ analysis_jobs[j].status = "failed"

\* C9: for every job with status done, the llm_analyses row of its event exists
\* and has status succeeded, under any interleaving of workers.
C9_DoneHasSucceededAnalysis ==
    \A j \in JobIds :
        analysis_jobs[j].status = "done" => llm_analyses[EventOf(j)].status = "succeeded"

\* the message analyze_news_event returns when the provider is out of quota
QuotaFailure == ComposeError(AttemptError("quota"))

\* C10 (state part): after an attempt that failed with insufficient_quota the
\* loop is never again about to call the provider.
C10_NoCallAfterQuota ==
    \A w \in Workers :
        pc[w] = "llm" =>
            \A i \in 1..Len(last_attempts[w]) :
                last_attempts[w][i].error # AttemptError("quota")

\* C10: non-retryable quota: after insufficient_quota the loop makes no further
\* provider call, the llm_analyses row is written failed, and the worker's
\* write leaves the job failed, whatever MAX_ATTEMPTS and the prior attempts.
C10_QuotaIsTerminal ==
    /\ [](C10_NoCallAfterQuota)
    /\ [][\A w \in Workers :
            /\ (pc[w] = "llm" /\ result'[w].error_message = QuotaFailure)
                  => llm_analyses'[EventOf(Head(batch[w]).id)].status = "failed"
            /\ (pc[w] = "mark" /\ pc'[w] # "mark" /\ result[w].error_message = QuotaFailure)
                  => analysis_jobs'[Head(batch[w]).id].status = "failed"]_vars

\* a job failed on quota with budget left: in its second lease of three or
\* more, or in its first lease of two
C10_Witness ==
    \E j \in JobIds :
        /\ analysis_jobs[j].status = "failed"
        /\ analysis_jobs[j].last_error = QuotaFailure
        /\ analysis_jobs[j].attempts < max_attempts

\* ======================================================================
\* Claims about recovery and delivery (LiveSpec)
\* ======================================================================

\* the lease of job j is held by a dead worker and is older than the timeout
DeadLease(j) ==
    /\ analysis_jobs[j].status = "running"
    /\ analysis_jobs[j].locked_by # NULL
    /\ pc[analysis_jobs[j].locked_by] = "crashed"
    /\ analysis_jobs[j].locked_at > visibility_timeout

\* a done or failed write has reached job j
Processed(j) ==
    \/ analysis_jobs[j].status = "done"
    \/ analysis_jobs[j].attempts > 0

C8_AtLeastOnce ==
    \A j \in JobIds :
        (analysis_jobs[j].status = "pending") ~> Processed(j)

\* a job was processed by the surviving worker after another worker had died
\* holding a lease that the sweep took away
C8_Witness ==
    \E j \in JobIds :
        /\ \E w \in Workers : pc[w] = "crashed"
        /\ reclaimed[j]
        /\ Processed(j)
        /\ analysis_jobs[j].status = "failed"

\* ======================================================================
\* The ingestion runs alone: NumRuns invocations of run.py against one
\* database, each with its own flags, over every small upstream feed
\* ======================================================================
Feeds == {{}, {ItemA}, {ItemB}, {ItemNoUrl}, {ItemNoHeadline}, {ItemNoDatetime}}

InitIntake ==
    /\ Boot
    /\ analysis_jobs_columns = AnalysisJobsColumns
    /\ PureIdle
    /\ NoRawRows
    /\ OnlyLlmJobs
    /\ news_events = {}
    /\ upstream \in [Tickers -> Feeds]
    /\ db_faults \in BOOLEAN
    /\ replay_only \in [Runs -> BOOLEAN]
    /\ max_publishes = 1
    /\ max_attempts = 1
    /\ batch_size = 1
    /\ visibility_timeout = 1
    /\ once = FALSE
    /\ client_ok = TRUE
    /\ provider_outcomes = {"ok"}

NextIntake ==
    \/ \E r \in Runs : RunStep(r)
    \/ \E r \in Runs : CrashRun(r)

SpecIntake == InitIntake /\ [][NextIntake]_vars

\* ======================================================================
\* Claims about the analysis (SpecAnalysis)
\* ======================================================================

\* C11: audit trail: when an analysis ends, the raw_output it persists in
\* llm_analyses is a list with one entry per provider attempt made in that
\* analysis (1 on first-attempt success, max_retries + 1 when every attempt
\* fails by invalid JSON, schema violation or timeout, 1 on insufficient_quota
\* at the first attempt).
C11_AuditTrailPerAttempt ==
    [][\A w \in Workers :
         (pc[w] = "llm" /\ pc'[w] = "mark")
            => LET raw == llm_analyses'[EventOf(Head(batch[w]).id)].raw_output IN
                 /\ raw.json_type = "array"
                 /\ raw.attempts = Len(last_attempts[w]) + 1]_vars

\* C12: when every attempt of the loop fails with a parse error (text that is
\* not JSON, or a JSON root that is not an object) or a schema-validation
\* error, the message analyze_news_event returns is classified retryable, so
\* with attempts + 1 < MAX_ATTEMPTS the worker's write puts the job back to
\* pending rather than failed.
C12_ParseErrorsRetryable ==
    [][\A w \in Workers :
         (/\ pc[w] = "mark" /\ pc'[w] # "mark"
          /\ client_ok
          /\ provider_outcomes \subseteq ParseOutcomes
          /\ result[w].status = "failed"
          /\ Head(batch[w]).attempts + 1 < max_attempts)
            => analysis_jobs'[Head(batch[w]).id].status = "pending"]_vars

\* ======================================================================
\* Claims about the publisher (SpecPublish)
\* ======================================================================
\* the analysis_jobs rows of an event, by either key column
JobsOf(e) ==
    {j \in JobIds : /\ analysis_jobs[j].status # "none"
                    /\ analysis_jobs[j].news_event_id = e \/ analysis_jobs[j].news_id = e}

\* C13: job publish idempotence: for any event the first publish_job returns
\* true and every later one false, after any number of calls the table holds
\* the one row of that event, and a later publish never changes the status or
\* the attempts of the existing row.
C13_PublishIdempotent ==
    /\ [](\A e \in JobIds :
            /\ \A i \in 1..Len(publish_returns[e]) :
                  publish_returns[e][i] = IF i = 1 THEN "True" ELSE "False"
            /\ publish_returns[e] # <<>> => Cardinality(JobsOf(e)) = 1)
    /\ [][\A e \in JobIds :
            (Len(publish_returns[e]) > 0 /\ publish_returns'[e] # publish_returns[e])
                => \A j \in JobsOf(e) :
                     /\ analysis_jobs'[j].status = analysis_jobs[j].status
                     /\ analysis_jobs'[j].attempts = analysis_jobs[j].attempts]_vars

\* ======================================================================
\* Claims about the ingestion run (SpecIntake)
\* ======================================================================
\* the raw row of this key holds a payload normalize_finnhub accepts
WellFormedRow(k) == NormalizeFinnhub(raw_news_items[k].payload) = "ok"

\* the event of the raw row of this key and its llm_analysis job are stored
EventAndJobStored(k) ==
    /\ EventIdOf(raw_news_items[k].payload) \in news_events
    /\ JobsOf(EventIdOf(raw_news_items[k].payload)) # {}

\* C14: once a run that took a well-formed item into its batch has returned,
\* the database holds the news_events row of the item's (source,
\* canonical_url) and the llm_analysis job of that event (the tables are
\* keyed by the unique keys, so a stored row is the only one).
C14_OneEventOneJob ==
    \A r \in Runs : \A k \in RawKeys :
        (/\ ~db_faults
         /\ ipc[r] = "exited"
         /\ k \in selected[r]
         /\ WellFormedRow(k))
            => EventAndJobStored(k)

\* a run whose lock statement raised: it is in the handler of main without
\* the lock, on an aborted transaction, and has inserted no ingestion_runs row
LockStatementRaised(r) ==
    /\ ipc[r] \in {"fail", "return_1"}
    /\ tx_aborted[r]
    /\ ingestion_runs[r] = "none"
    /\ advisory_lock # r

\* a run at a position of main() after the lock statement and before the
\* close of its connection that came there with the lock
BetweenLockAndClose(r) == ipc[r] \in IntakeLive /\ ~LockStatementRaised(r)

\* C15: at most one run is between the acquisition of the advisory lock and
\* the close of its connection, and it is the holder of the lock; a run that
\* did not get the lock returns 0, and its return changes no table.
C15_LockExclusion ==
    /\ [](/\ Cardinality({r \in Runs : BetweenLockAndClose(r)}) <= 1
          /\ \A r \in Runs : BetweenLockAndClose(r) => advisory_lock = r
          /\ \A r \in Runs : ipc[r] = "lock_not_acquired" =>
                /\ exit_code[r] = 0
                /\ ingestion_runs[r] = "none"
                /\ selected[r] = {})
    /\ [][\A r \in Runs :
            (ipc[r] # "lock_not_acquired" /\ ipc'[r] = "lock_not_acquired")
               => UNCHANGED <<raw_news_items, news_events, ingestion_runs, analysis_jobs,
                              llm_analyses>>]_vars

\* a run turned away while another one holds the lock and works
C15_Witness ==
    \E r, q \in Runs :
        /\ ipc[r] \in IntakeLive \ {"insert_run"}
        /\ advisory_lock = r
        /\ ipc[q] = "lock_not_acquired"
        /\ exit_code[q] = 0

\* C16: a run that inserted its ingestion_runs row and returned left the row
\* succeeded with exit code 0, or failed with a non-zero exit code.
C16_RunFinalized ==
    \A r \in Runs :
        (ipc[r] = "exited" /\ ingestion_runs[r] # "none")
            => \/ ingestion_runs[r] = "succeeded" /\ exit_code[r] = 0
               \/ ingestion_runs[r] = "failed" /\ exit_code[r] # 0

\* C17: the upstream call of one ticker never aborts the run: after it the
\* run fetches the next ticker or goes on to store the items it kept.
C17_TickerErrorIsolation ==
    [][\A r \in Runs :
         ipc[r] = "fetch" => ipc'[r] \in {"fetch", "insert_raw", "crashed"}]_vars

\* C18: when a run has returned, every raw row of its batch is normalized or
\* failed, and the run has not failed.
C18_RowIndependence ==
    \A r \in Runs :
        (~db_faults /\ ipc[r] = "exited" /\ selected[r] # {})
            => /\ \A k \in selected[r] :
                    raw_news_items[k].status \in {"normalized", "failed"}
               /\ ingestion_runs[r] = "succeeded"

\* C19: the iteration over a raw row that lacks url, headline or datetime
\* marks the row failed with the normalization error and one more attempt,
\* and stores no event and no job.
C19_BadRowMarkedFailed ==
    [][\A r \in Runs :
         (/\ ipc[r] = "rows"
          /\ ipc'[r] \notin {"rows", "crashed"} \/ raw_rows'[r] # raw_rows[r]
          /\ ~WellFormedRow(Head(raw_rows[r])))
            => LET k == Head(raw_rows[r]) IN
                 /\ raw_news_items'[k].status = "failed"
                 /\ raw_news_items'[k].last_error = NormalizationErrorText
                 /\ raw_news_items'[k].attempts = raw_news_items[k].attempts + 1
                 /\ news_events' = news_events
                 /\ analysis_jobs' = analysis_jobs]_vars

\* C20: after a run crashed between two statements, a replay-only run that
\* took the rows left behind into its batch and returned has left every
\* well-formed one normalized, with its event and its job stored.
C20_ReplaySafety ==
    \A r, q \in Runs : \A k \in RawKeys :
        (/\ ~db_faults
         /\ q # r
         /\ ipc[q] = "crashed"
         /\ replay_only[r]
         /\ ipc[r] = "exited"
         /\ k \in selected[r]
         /\ WellFormedRow(k))
            => /\ raw_news_items[k].status = "normalized"
               /\ EventAndJobStored(k)

\* ======================================================================
\* Claims about the pure functions (SpecPure)
\* ======================================================================

\* C21: canonicalizing the canonical form of an accepted URL gives that
\* canonical form again.
C21_CanonicalizeIdempotent ==
    Len(canonical) = 3 => canonical[3] = canonical[1]

\* C22: two URLs that differ only in tracking parameters, in the order of
\* their query parameters or in their fragment have the same canonical URL
\* and the same news_id.
C22_TrackingInvariance ==
    Len(canonical) >= 2 =>
        /\ canonical[1] = canonical[2]
        /\ GenerateNewsId(CodePoints("finnhub"), urls[1])
              = GenerateNewsId(CodePoints("finnhub"), urls[2])

\* what the claim calls retryable: none of the non-retryable tokens and at
\* least one of the retryable ones in the lowercased text
StatedRetryable(error_message) ==
    /\ error_message # NoText
    /\ \A t \in {"insufficient_quota", "401", "403"} : ~Contains(Lower(error_message), t)
    /\ \E t \in {"timeout", "json", "validation"} : Contains(Lower(error_message), t)

\* C23: a message is classified retryable exactly when it is retryable as
\* stated; an empty or absent message is not.
C23_RetryPredicate ==
    verdict # <<>> => verdict[1] = StatedRetryable(error_text)

\* a message with tokens of both kinds was classified, and not retryable
C23_Witness ==
    /\ verdict = <<FALSE>>
    /\ Contains(Lower(error_text), "timeout")
    /\ Contains(error_text, "401")

\* ======================================================================
\* Claims about dispatch and shutdown (SpecService)
\* ======================================================================

\* C24: a claimed job whose job_type is not llm_analysis is handled like an
\* exception: it is never marked done
C24_UnknownTypeNeverDone ==
    \A j \in JobIds : job_type[j] # "llm_analysis" => analysis_jobs[j].status # "done"

\* C25: once the shutdown flag of a worker is down, no step gives that worker
\* the lease of a job it did not already hold
C25_NoClaimAfterShutdown ==
    [][\A w \in Workers : ~running[w] =>
          \A j \in JobIds :
              (analysis_jobs'[j].status = "running" /\ analysis_jobs'[j].locked_by = w)
                  => (analysis_jobs[j].status = "running" /\ analysis_jobs[j].locked_by = w)]_vars

\* ======================================================================
\* Claims about stored raw rows (SpecIntake)
\* ======================================================================

\* C26: a raw row marked failed by a normalization error is not retried: no
\* run selects it, and no run, in a step of its row loop, calls
\* normalize_finnhub on it (the call is reached when raw_row.request_ticker
\* can be read)
C26_FailedRowNotRetried ==
    [][\A r \in Runs : \A k \in RawKeys :
          (\/ k \in selected'[r] /\ k \notin selected[r]
           \/ /\ ipc[r] = "rows"
              /\ ipc'[r] \in {"rows", "finish", "fail"}
              /\ raw_rows'[r] # raw_rows[r] \/ ipc'[r] # ipc[r]
              /\ Head(raw_rows[r]) = k
              /\ "request_ticker" \in RawNewsRowFields)
             => ~(/\ raw_news_items[k].status = "failed"
                  /\ raw_news_items[k].last_error = NormalizationErrorText)]_vars

\* a raw row is marked failed by a normalization error
C26_SomeRowFailedByNormalization ==
    \E k \in RawKeys :
        /\ raw_news_items[k].status = "failed"
        /\ raw_news_items[k].last_error = NormalizationErrorText

\* ======================================================================
\* Claims about re-attempts of an analysis (Spec)
\* ======================================================================

\* C27: the llm_analyses row and its analysis_tickers rows reflect only the
\* latest attempt: a row whose latest attempt failed holds no sentiment,
\* confidence, summary, entities or tickers of an earlier success
C27_FailedRowHoldsNoVerdict ==
    \A e \in JobIds :
        llm_analyses[e].status = "failed"
            => /\ llm_analyses[e].sentiment = NoText
               /\ llm_analyses[e].entities = NoText
               /\ llm_analyses[e].tickers = {}

\* ======================================================================
\* Claims about the claim and the failure write
\* ======================================================================

\* C28: a claim cycle returns at most batch_size jobs, each pending with
\* run_after <= now and attempts < MAX_ATTEMPTS at the moment of the claim; it
\* sets exactly those jobs to running with locked_by the claiming worker and
\* locked_at now, leaves their attempts alone and changes no other job
C28_ClaimCycle ==
    [][\A w \in Workers :
         (pc[w] = "claim" /\ pc'[w] \in {"process", "loop", "exited"})
            => LET returned == {batch'[w][i].id : i \in 1..Len(batch'[w])}
                   changed == {j \in JobIds : analysis_jobs'[j] # analysis_jobs[j]}
               IN /\ Len(batch'[w]) <= batch_size
                  /\ Cardinality(returned) = Len(batch'[w])
                  /\ changed = returned
                  /\ \A j \in returned :
                        /\ analysis_jobs[j].status = "pending"
                        /\ analysis_jobs[j].run_after <= 0
                        /\ analysis_jobs[j].attempts < max_attempts
                        /\ analysis_jobs'[j] =
                              [analysis_jobs[j] EXCEPT !.status = "running", !.locked_by = w,
                                                       !.locked_at = 0]]_vars

\* a worker holds a batch of two jobs it has just claimed, one of them on its
\* second attempt, while a third condition of the claim is in play: the batch
\* fills batch_size
C28_Witness ==
    \E w \in Workers :
        /\ pc[w] = "process"
        /\ Len(batch[w]) = batch_size
        /\ batch_size = MaxBatchSize
        /\ \E i \in 1..Len(batch[w]) : batch[w][i].attempts > 0
        /\ \A i \in 1..Len(batch[w]) :
              /\ analysis_jobs[batch[w][i].id].status = "running"
              /\ analysis_jobs[batch[w][i].id].locked_by = w
              /\ analysis_jobs[batch[w][i].id].locked_at = 0

\* C29: failure transition: when the processing of a claimed job with prior
\* attempts a fails with message m, the job becomes pending with attempts
\* a + 1 and no lease if m is retryable and a + 1 < MAX_ATTEMPTS, and failed
\* with attempts a + 1 and no lease otherwise (a read as the attempts the job
\* was claimed with, or as the attempts of its row before the write)
C29_FailureTransition ==
    [][\A w \in Workers :
         (pc[w] = "mark" /\ pc'[w] # "mark" /\ result[w].status # "succeeded")
            => LET job == Head(batch[w])
                   after == analysis_jobs'[job.id]
                   Stated(a) ==
                       /\ after.status =
                             IF StatedRetryable(result[w].error_message) /\ a + 1 < max_attempts
                             THEN "pending" ELSE "failed"
                       /\ after.attempts = a + 1
                       /\ after.locked_at = NULL
                       /\ after.locked_by = NULL
               IN Stated(job.attempts) \/ Stated(analysis_jobs[job.id].attempts)]_vars

\* C30: backoff: a retryable failure of a job with prior attempts a returns it
\* to pending with run_after = NOW() + 2^(a+1) seconds (a read as the attempts
\* the job was claimed with, or as the attempts of its row before the write);
\* the instant a pending job waits for is moved earlier by nothing but the
\* clock, and no worker claims the job before it
C30_Backoff ==
    [][/\ \A w \in Workers :
            (pc[w] = "mark" /\ pc'[w] # "mark" /\ result[w].status # "succeeded"
                /\ analysis_jobs'[Head(batch[w]).id].status = "pending")
               => LET job == Head(batch[w])
                      before == analysis_jobs[job.id]
                      after == analysis_jobs'[job.id]
                  IN /\ \/ after.run_after = 2 ^ (job.attempts + 1)
                        \/ after.run_after = 2 ^ (before.attempts + 1)
                     /\ before.status = "pending" => after.run_after >= before.run_after
       /\ \A j \in JobIds :
            /\ (analysis_jobs[j].status = "pending" /\ analysis_jobs'[j].status = "running")
                  => analysis_jobs[j].run_after <= 0
            /\ (analysis_jobs[j].status = "pending" /\ analysis_jobs'[j].status = "pending"
                   /\ analysis_jobs[j].run_after > 0)
                  => analysis_jobs'[j].run_after >= analysis_jobs[j].run_after
                                                      - (IF pc' = pc THEN 1 ELSE 0)]_vars

\* ======================================================================
\* Claims about the sweep and about writes to a job another worker holds
\* ======================================================================

\* C31: the stuck-lease sweep changes only jobs that are running with
\* locked_at older than now minus visibility_timeout: it sets them to pending
\* and clears locked_at and locked_by; it never touches a running job whose
\* lease is younger nor any pending, done or failed job, and it leaves
\* attempts, run_after and last_error of every job unchanged
C31_SweepFrame ==
    [][\A w \in Workers :
         (pc[w] = "recover" /\ pc'[w] = "claim")
            => \A j \in JobIds :
                  LET before == analysis_jobs[j]
                      after == analysis_jobs'[j]
                  IN IF before.status = "running" /\ before.locked_at # NULL
                           /\ before.locked_at > visibility_timeout
                     THEN after = [status |-> "pending", attempts |-> before.attempts,
                                   run_after |-> before.run_after, locked_at |-> NULL,
                                   locked_by |-> NULL, last_error |-> before.last_error,
                                   news_event_id |-> before.news_event_id,
                                   news_id |-> before.news_id]
                     ELSE after = before]_vars

\* the sweep has taken the old lease of a job that had failed before (it
\* keeps its attempts and last_error) while another job is running on a
\* lease younger than the timeout
C31_Witness ==
    \E j, k \in JobIds :
        /\ reclaimed[j]
        /\ analysis_jobs[j].status = "pending"
        /\ analysis_jobs[j].locked_by = NULL
        /\ analysis_jobs[j].attempts > 0
        /\ analysis_jobs[j].last_error # NoText
        /\ analysis_jobs[k].status = "running"
        /\ analysis_jobs[k].locked_at <= visibility_timeout
        /\ \E w \in Workers : pc[w] = "claim"

\* ======================================================================
\* Claims about the retry loop of the LLM client (SpecAnalysis)
\* ======================================================================

\* C32: the LLM loop makes at most max_retries + 1 provider calls; it stops at
\* the first attempt whose output parses and validates and makes no call
\* after it; after a provider error other than insufficient_quota, a JSON
\* error or a validation error it goes on while attempts are left; every
\* call appends exactly one attempt record; the first attempt uses the
\* standard prompt and every later one the retry prompt; when no attempt
\* succeeded the analysis failure is raised with the attempts made: it is
\* raised after insufficient_quota or after call max_retries + 1 only, and
\* what analyze_news_event makes of it is the failed row and the message of
\* the last attempt, or the error of that write when the record of the last
\* attempt cannot be stored
C32_LoopBounded ==
    [][\A w \in Workers :
         pc[w] = "llm" =>
            LET made == last_attempts[w]
                n == Len(made)
                later == last_attempts'[w]
                failures == {AttemptError(o) : o \in ProviderOutcomes \ AnswerOutcomes}
            IN /\ n <= MaxRetries
               /\ \A i \in 1..n :
                     /\ made[i].prompt = (IF i = 1 THEN "standard" ELSE "retry")
                     /\ made[i].error \in failures \ {AttemptError("quota")}
               /\ (pc'[w] = "llm" /\ later # made)
                     => /\ n < MaxRetries
                        /\ Len(later) = n + 1
                        /\ SubSeq(later, 1, n) = made
                        /\ later[n + 1].prompt = (IF n = 0 THEN "standard" ELSE "retry")
                        /\ later[n + 1].error \in failures \ {AttemptError("quota")}
               /\ pc'[w] \in {"tickers", "mark"}
                     => LET returned == result'[w]
                            row == llm_analyses'[EventOf(Head(batch[w]).id)]
                        IN \/ /\ returned.status = "succeeded"
                              /\ returned.error_message = NoText
                           \/ /\ returned.status = "failed"
                              /\ returned.error_message = SerializeErrorText
                              /\ row.raw_output.error = "no_attempts"
                           \/ /\ returned.status = "failed"
                              /\ \E error \in failures :
                                    /\ returned.error_message = "LLM analysis failed: " \o error
                                    /\ row.raw_output.error = error
                                    /\ error = AttemptError("quota") \/ n = MaxRetries
                           \/ /\ returned.status = "raised"
                              /\ returned.error_message = SerializeErrorText
                              /\ n = MaxRetries]_vars

\* the loop used the retry prompt after a validation error and then failed
\* for good on a JSON root that is no object: the failure reached the worker
C32_Witness ==
    \E w \in Workers :
        /\ pc[w] = "mark"
        /\ result[w].status = "failed"
        /\ result[w].error_message = ComposeError(AttemptError("json_root"))
        /\ provider_outcomes = ProviderOutcomes

\* ======================================================================
\* Claims about the upstream adapter and the rate shaping (SpecFetch)
\* ======================================================================
\* a transport error, a 429 or a 5xx
RetriedAnswer(answer) ==
    answer.status = 0 \/ answer.status = 429 \/ answer.status \in 500..599

\* the seconds a numeric Retry-After header names, NULL for the headers that
\* name none
HeaderSeconds(retry_after) ==
    CASE retry_after = CodePoints("0") -> 0
      [] retry_after = CodePoints("2") -> 2
      [] retry_after = CodePoints("07") -> 7
      [] retry_after = <<1635>> -> 3
      [] OTHER -> NULL

\* what a finished call did, but for the length of its waits: get number i
\* happened for i up to gets, every get before the last was answered by a
\* transport error, a 429 or a 5xx, and the call ended with the response
\* (status below 400), with the status error of a 4xx other than 429, or,
\* only after the third get, with FinnhubError
CallShape ==
    LET gets == Len(request_result.sleeps) + 1
        last == answers[gets]
    IN /\ gets <= 3
       /\ \A i \in 1..(gets - 1) : RetriedAnswer(answers[i])
       /\ request_result.outcome \in {"response", "http_status_error", "finnhub_error"}
       /\ request_result.outcome = "response" <=> last.status \in 1..399
       /\ request_result.outcome = "http_status_error"
              <=> (last.status >= 400 /\ ~RetriedAnswer(last))
       /\ request_result.outcome = "finnhub_error" <=> (RetriedAnswer(last) /\ gets = 3)

\* C33: a finished call made at most 3 attempts, returned at the first
\* status below 400, retried only after a transport error, a 429 or a 5xx,
\* raised FinnhubError after the third failed attempt, and between attempts
\* waited the numeric Retry-After value when present, otherwise 2^(attempt-1)
\* seconds.
C33_WaitsRetryAfterValue ==
    request_result.outcome # "none" =>
        /\ CallShape
        /\ \A i \in 1..Len(request_result.sleeps) :
              request_result.sleeps[i] =
                  IF HeaderSeconds(answers[i].retry_after) # NULL
                  THEN HeaderSeconds(answers[i].retry_after)
                  ELSE 2 ^ (i - 1)

\* the timestamp an item is ranked by, None when it has none
PublishedAt(i) ==
    IF fetched_items[i].datetime \notin {None, <<0>>} THEN fetched_items[i].datetime
    ELSE fetched_items[i].published_at

\* the New York calendar date of item i, by the calendar; the items without
\* timestamp share one
NewYorkDay(i) ==
    CASE PublishedAt(i) = None -> "none"
      [] PublishedAt(i)[1] \in {0 - 767907000, 0 - 767880000} -> "1945-09-01"
      [] PublishedAt(i)[1] \in {0, 3600} -> "1969-12-31"
      [] PublishedAt(i)[1] = 1142397000 -> "2006-03-14"
      [] PublishedAt(i)[1] = 1142434800 -> "2006-03-15"
      [] PublishedAt(i)[1] \in {1151728200, 1151755200} -> "2006-07-01"
      [] PublishedAt(i)[1] = 1705293000 -> "2024-01-14"
      [] PublishedAt(i)[1] \in {1705296600, 1705370400} -> "2024-01-15"
      [] PublishedAt(i)[1] = 1719804600 -> "2024-06-30"
      [] PublishedAt(i)[1] = 1719808200 -> "2024-07-01"

\* C34: once one ticker's items are shaped, the items left by the daily cap
\* are distinct items of the list, newest first with the items without
\* timestamp last; with daily_max > 0 they hold at most daily_max items of
\* any one New York date, an item is left out only when its date is full,
\* and no item left out is newer than a kept item of its date; with
\* daily_max <= 0 they are all the items.  The items of the run are the
\* first latest_per_run of those, or all of them when latest_per_run <= 0.
C34_RateShaping ==
    shaped.daily_limited # <<>> =>
        LET daily == shaped.daily_limited
            latest == shaped.latest_items
            all == 1..Len(fetched_items)
            kept == {daily[k] : k \in 1..Len(daily)}
            OfDay(i) == {j \in kept : NewYorkDay(j) = NewYorkDay(i)}
            NotOlder(i, j) ==
                PublishedAt(j) = None
                    \/ (PublishedAt(i) # None /\ PublishedAt(i)[1] >= PublishedAt(j)[1])
        IN /\ kept \subseteq all
           /\ Cardinality(kept) = Len(daily)
           /\ \A k \in 1..Len(daily), l \in 1..Len(daily) :
                 k < l => NotOlder(daily[k], daily[l])
           /\ daily_max <= 0 => kept = all
           /\ daily_max > 0 =>
                 /\ \A i \in all : Cardinality(OfDay(i)) <= daily_max
                 /\ \A i \in all \ kept :
                       /\ Cardinality(OfDay(i)) = daily_max
                       /\ \A j \in OfDay(i) : NotOlder(j, i)
           /\ Len(latest) = IF latest_per_run > 0 /\ latest_per_run < Len(daily)
                            THEN latest_per_run ELSE Len(daily)
           /\ latest = SubSeq(daily, 1, Len(latest))

\* three items, the first two on two New York dates though on one UTC date,
\* the third the newest and on the date of the second: one item per date
\* leaves the third and the first, and one item per run leaves the third
C34_Witness ==
    /\ [i \in 1..Len(fetched_items) |-> PublishedAt(i)]
          = <<<<1705293000>>, <<1705296600>>, <<1705370400>>>>
    /\ daily_max = 1
    /\ latest_per_run = 1
    /\ shaped = [daily_limited |-> <<3, 1>>, latest_items |-> <<3>>]

\* ======================================================================
\* Claims about the life of a raw row over ingestion runs (SpecIntake)
\* ======================================================================
\* C35: a run selects only rows with status fetched or failed and fewer than
\* 3 attempts; each processing of a row by the row loop takes a row that is
\* not normalized and adds exactly one to its attempts; no row's attempts
\* ever exceeds 3.
C35_RawLifecycle ==
    [][\A r \in Runs :
         /\ (ipc[r] = "select" /\ ipc'[r] \in {"rows", "finish"}) =>
               \A k \in selected'[r] :
                 /\ raw_news_items[k].status \in {"fetched", "failed"}
                 /\ raw_news_items[k].attempts < 3
         /\ (ipc[r] = "rows" /\ ipc'[r] \in {"rows", "finish", "fail"}) =>
               LET k == Head(raw_rows[r]) IN
                 /\ raw_news_items[k].status # "normalized"
                 /\ raw_news_items'[k].attempts = raw_news_items[k].attempts + 1
         /\ \A k \in RawKeys : raw_news_items'[k].attempts <= 3]_vars

\* ======================================================================
\* Claims about completion writes and the lease (Spec)
\* ======================================================================
\* C36: the done or failed/pending write of a worker changes the status,
\* attempts and run_after of a job only if, when it is made, the job is
\* running and locked by that worker.
C36_WriteNeedsLease ==
    [][\A w \in Workers :
         (pc[w] = "mark" /\ batch'[w] = Tail(batch[w])) =>
             LET id == Head(batch[w]).id
                 before == analysis_jobs[id]
                 after == analysis_jobs'[id]
             IN (before.status = "running" /\ before.locked_by = w)
                    \/ /\ after.status = before.status
                       /\ after.attempts = before.attempts
                       /\ after.run_after = before.run_after]_vars

\* C37: a job whose status is done keeps that status in every later step of
\* any worker or publisher.
C37_DoneIsAbsorbing ==
    [][\A j \in JobIds :
         analysis_jobs[j].status = "done" => analysis_jobs'[j].status = "done"]_vars

\* ======================================================================
\* Claims about what a normalized raw row implies (SpecIntake)
\* ======================================================================
\* C38: in every state the database holds, a crash of a run at any point
\* included, a raw row with status normalized has its news_events row and
\* an analysis_jobs row for that event.
C38_NormalizedHasEventAndJob ==
    \A k \in RawKeys :
        raw_news_items[k].status = "normalized" =>
            /\ EventIdOf(raw_news_items[k].payload) \in news_events
            /\ JobsOf(EventIdOf(raw_news_items[k].payload)) # {}

\* a raw row is normalized
C38_SomeRowNormalized ==
    \E k \in RawKeys : raw_news_items[k].status = "normalized"

\* ======================================================================
\* Claims about the ticker rows of a succeeded analysis (SpecAnalysis)
\* ======================================================================
\* C39: in every state the database shows to other sessions, an llm_analyses
\* row with status succeeded has exactly the analysis_tickers rows of the
\* tickers in its entities: none for the empty list, and never those of
\* another verdict.
C39_SucceededHasItsTickers ==
    \A e \in JobIds :
        llm_analyses[e].status = "succeeded"
            => \E o \in AnswerOutcomes :
                  /\ llm_analyses[e].entities = Json(ResultTickers(o))
                  /\ llm_analyses[e].tickers =
                        {ResultTickers(o)[i] : i \in 1..Len(ResultTickers(o))}

\* ======================================================================
\* Claims about how often a job is handed out (LiveSpec)
\* ======================================================================
\* C40: whatever workers die while they hold a lease and whatever the sweep
\* reclaims, no job has been claimed more than MAX_ATTEMPTS times in total.
C40_BoundedDeliveries ==
    \A j \in JobIds : deliveries[j] <= max_attempts
====
